---- MODULE Spec2Model ----
(***************************************************************************)
(* Model of the Cloudflare Workers transport of fastmcp-cloudflare:       *)
(* WorkersTransport.handleRequest, processMessage, handleCors,            *)
(* getCorsHeaders and the handler registry.                               *)
(*                                                                         *)
(* Strings that the code inspects (path, header values) are sequences of  *)
(* symbols, so that startsWith, includes and parseInt are computed, not   *)
(* assumed.  Time is a discrete clock; a timer fires when the clock       *)
(* reaches its deadline.                                                   *)
(***************************************************************************)
EXTENDS Integers, Sequences, FiniteSets, TLC

\* ---------------------------------------------------------------- bounds
MaxHandlers == 2
MaxSinkCalls == 2
Timeout == 2
MaxBody == 10

MaxTime == Timeout + 1
Slots == { 1, 2 }
Handlers == 1..MaxHandlers

None == "<none>"
NaN == [ nan |-> TRUE, n |-> 0 ]

\* ------------------------------------------------------- string helpers
\* String.prototype.includes (substring search)
Includes(s, sub) ==
  \E i \in 0..(Len(s) - Len(sub)) : SubSeq(s, i + 1, i + Len(sub)) = sub

\* variant: the prefix may occur anywhere in the string
StartsWithAnywhere(s, p) == Includes(s, p)

\* String.prototype.startsWith
StartsWith(s, p) ==
  /\ Len(p) <= Len(s)
  /\ SubSeq(s, 1, Len(p)) = p

\* Array.prototype.includes
ArrayIncludes(arr, x) == \E i \in 1..Len(arr) : arr[i] = x

DigitChars == <<"0", "1", "2", "3", "4", "5", "6", "7", "8", "9">>
IsDigit(c) == \E d \in 1..10 : DigitChars[d] = c
DigitValue(c) == (CHOOSE d \in 1..10 : DigitChars[d] = c) - 1

RECURSIVE DigitPrefixValue(_, _, _)
DigitPrefixValue(s, i, acc) ==
  IF i > Len(s) \/ ~IsDigit(s[i]) THEN acc
  ELSE DigitPrefixValue(s, i + 1, acc * 10 + DigitValue(s[i]))

\* parseInt(string): value of the leading run of decimal digits, NaN when
\* the string does not start with a digit.
parseInt(s) ==
  IF Len(s) = 0 \/ ~IsDigit(s[1]) THEN NaN
  ELSE [ nan |-> FALSE, n |-> DigitPrefixValue(s, 1, 0) ]

\* variant: a >= b
GreaterOrEqual(a, b) == ~a.nan /\ a.n >= b

\* the JavaScript comparison a > b where a may be NaN
GreaterThan(a, b) == ~a.nan /\ a.n > b

\* Headers.get returns null for an absent header
Absent == <<"<null>">>

\* truthiness of a header value returned by Headers.get (null or a string)
Truthy(h) == h # Absent /\ h # <<>>

\* decimal rendering of a natural number, to write Content-Length values
RECURSIVE Decimal(_)
Decimal(n) == IF n < 10 THEN <<DigitChars[n + 1]>>
              ELSE Decimal(n \div 10) \o <<DigitChars[(n % 10) + 1]>>

AllDigits(s) == Len(s) > 0 /\ \A i \in 1..Len(s) : IsDigit(s[i])


\* ------------------------------------------------------------ constants
\* DEFAULT_OPTIONS.pathPrefix = '/mcp'
DefaultPathPrefix == <<"/", "m", "c", "p">>
JsonMime == <<"application/json">>
InternalErrorCode == -32603

\* --------------------------------------------------------------- inputs
Methods == { "GET", "POST", "OPTIONS", "DELETE" }
Paths == { <<"/", "m", "c", "p">>,
           <<"/", "m", "c", "p", "/", "x">>,
           <<"/", "a", "/", "m", "c", "p">>,
           <<"/", "m", "c">> }
ContentTypes == { Absent, JsonMime, JsonMime \o <<"; charset=utf-8">>, <<"text/plain">> }
ContentLengths == { Absent, <<>>, Decimal(MaxBody), Decimal(MaxBody + 1),
                    Decimal(MaxBody * 10) \o <<"x">>, <<"x", "9">> }
OriginA == <<"https://a.com">>
OriginB == <<"https://b.com">>
Wildcard == <<"*">>
RequestOrigins == { Absent, <<>>, OriginA, OriginB }
Bodies == { "{\"method\":\"tools/list\"}", "not json" }
Envs == { "env1" }

\* a Workers Request as far as handleRequest looks at it
Requests ==
  [ method : Methods, path : Paths, contentType : ContentTypes,
    contentLength : ContentLengths, origin : RequestOrigins,
    body : Bodies, env : Envs ]

\* the requests of the exchange specification: POSTs under the prefix
\* (one of them with an unparsable body) and one non-POST
ExchangeRequests ==
  { q \in Requests :
      /\ q.path = DefaultPathPrefix
      /\ q.contentType = JsonMime
      /\ q.contentLength = Absent
      /\ q.origin \in { Absent, OriginA }
      /\ q.method \in { "POST", "GET" }
      /\ (q.method = "GET" => q.body = "not json" /\ q.origin = Absent) }

\* cors.origins lists a caller may configure
OriginLists == { <<Wildcard>>, <<OriginA, Wildcard>>, <<OriginA>>, <<>> }

\* a cors value holds what its three keys read as, and in `undefined` the
\* keys that read as undefined ("cors" when the value itself is undefined);
\* a key that reads as undefined holds FALSE or the empty list here
CorsKeys == { "enabled", "origins", "credentials" }

CorsConfigs ==
  [ enabled : BOOLEAN, origins : OriginLists, credentials : BOOLEAN, undefined : { {} } ]

\* the cors configurations of the exchange specification
ExchangeCorsConfigs ==
  { c \in CorsConfigs : c.enabled /\ c.origins = <<OriginA>> /\ ~c.credentials }

\* values a handler passes to the completion sink: plain JSON data
NoValue == [ data |-> None, env |-> None, responseHandler |-> FALSE, error |-> FALSE ]
PlainValues ==
  { [ data |-> d, env |-> None, responseHandler |-> FALSE, error |-> FALSE ] : d \in { "r1", "r2" } }
\* an Error object passed to the sink as its argument: new Error('boom')
ErrorValues ==
  { [ data |-> "boom", env |-> None, responseHandler |-> FALSE, error |-> TRUE ] }
SinkValues == PlainValues \cup ErrorValues
\* messages of errors a handler throws
ThrownMessages == { "boom" }
TimeoutMessage == "Request timeout"

\* what a handler does synchronously when the message is delivered to it
SyncBehaviours ==
  { [ kind |-> "silent", value |-> NoValue, reason |-> None, target |-> 0 ] }
  \cup { [ kind |-> "sink", value |-> v, reason |-> None, target |-> 0 ] : v \in PlainValues }
  \cup { [ kind |-> "throw", value |-> NoValue, reason |-> m, target |-> 0 ] : m \in ThrownMessages }

\* a handler that changes the registry while it is being called: it
\* subscribes a handler, unsubscribes one, or unsubscribes and subscribes
\* one again
RegistryBehaviours ==
  { [ kind |-> k, value |-> NoValue, reason |-> None, target |-> h ] :
      k \in { "subscribe", "unsubscribe", "resubscribe" }, h \in Handlers }

ReentrantBehaviours ==
  { b \in SyncBehaviours : b.value.data # "r2" }
  \cup RegistryBehaviours

\* ---------------------------------------------------------------- state
VARIABLES
  compat,           \* the compatibility utility call being evaluated, with its result
  emitter,          \* a WorkersEventEmitter: its listeners and what they were called with
  server,           \* a WorkersFastMCP instance under construction
  closeCalls,       \* per close handler: number of times close() has called it (history)
  supplied,         \* the options argument the constructor was called with
  options,          \* this.options
  messageHandlers,  \* this.messageHandlers (a Set: insertion-ordered, no duplicates)
  closeHandlers,    \* this.closeHandlers
  errorHandlers,    \* this.errorHandlers
  now,              \* the clock, in timer ticks
  pc,               \* per request: idle, reading, awaiting, done, raised
  req,              \* per request: the Request being handled
  bodyRead,         \* per request: request.text() has been called
  promise,          \* per request: the promise of processMessage
  timer,            \* per request: the deadline timer (none, armed, cleared, fired)
  deadline,         \* per request: the clock value at which the timer fires
  created,          \* per request: the clock value when the exchange was created
  registered,       \* per request: messageHandlers when the exchange was created (history)
  reentered,        \* per request: a handler changed the registry during the broadcast (history)
  delivered,        \* per request: handlers the message was delivered to, in order
  first,            \* per request: the first completion event (history)
  events,           \* per request: number of completion events so far (history)
  sinkCalls,        \* per request: number of asynchronous sink invocations
  resp,             \* per request: the Response handleRequest resolved to
  respCount,        \* per request: number of responses produced
  respTime          \* per request: the clock value when the response was produced

vars == << compat, emitter, server, closeCalls, supplied, options, messageHandlers, closeHandlers, errorHandlers, now, pc, req, bodyRead, promise, timer,
           deadline, created, registered, reentered, delivered, first, events, sinkCalls, resp,
           respCount, respTime >>

\* the variables of the transport and its requests
transportVars ==
  << closeCalls, supplied, options, messageHandlers, closeHandlers, errorHandlers, now, pc, req,
     bodyRead, promise, timer, deadline, created, registered, reentered, delivered, first,
     events, sinkCalls, resp, respCount, respTime >>

reqVars == << pc, req, bodyRead, promise, timer, deadline, created, registered, reentered, delivered,
              first, events, sinkCalls, resp, respCount, respTime >>

\* ----------------------------------------------------------- responses
NoHeaders == {}
NoJson == [ isError |-> FALSE, value |-> [ data |-> None, env |-> None ],
            code |-> 0, message |-> None, data |-> None ]
NoResponse == [ status |-> 0, text |-> None, json |-> NoJson, headers |-> NoHeaders ]

\* new Response(text, { status, headers })
TextResponse(status, text, headers) ==
  [ status |-> status, text |-> text, json |-> NoJson, headers |-> headers ]

\* variant: every value is serialized as the empty object
JSONStringifyEmpty(v) ==
  [ isError |-> FALSE, value |-> [ data |-> "{}", env |-> None ],
    code |-> 0, message |-> None, data |-> None ]

\* JSON.stringify of a sink value: function-valued properties are omitted;
\* an Error object has no enumerable property and gives "{}"
JSONStringify(v) ==
  [ isError |-> FALSE,
    value |-> IF v.error THEN [ data |-> "{}", env |-> None ]
              ELSE [ data |-> v.data, env |-> v.env ],
    code |-> 0, message |-> None, data |-> None ]

\* variant: the error text is put in message and no data is sent
ErrorEnvelopeMessageOnly(code, message, data) ==
  [ isError |-> TRUE, value |-> [ data |-> None, env |-> None ],
    code |-> code, message |-> data, data |-> None ]

\* JSON.stringify({ error: { code, message, data } })
ErrorEnvelope(code, message, data) ==
  [ isError |-> TRUE, value |-> [ data |-> None, env |-> None ],
    code |-> code, message |-> message, data |-> data ]

Header(r, name) == { h[2] : h \in { x \in r.headers : x[1] = name } }
HasHeader(r, name) == Header(r, name) # {}

\* ------------------------------------------------------------------ CORS
\* variant: without the wildcard, any Origin sent is echoed
getCorsHeadersReflect(q) ==
  IF ~options.cors.enabled THEN {}
  ELSE
    { <<"Access-Control-Allow-Methods", <<"POST, OPTIONS">> >>,
      <<"Access-Control-Allow-Headers", <<"Content-Type, Authorization">> >> }
    \cup
    ( IF ArrayIncludes(options.cors.origins, Wildcard)
        THEN { <<"Access-Control-Allow-Origin", Wildcard>> }
      ELSE IF Truthy(q.origin)
        THEN { <<"Access-Control-Allow-Origin", q.origin>> }
      ELSE {} )
    \cup
    ( IF options.cors.credentials
        THEN { <<"Access-Control-Allow-Credentials", <<"true">> >> }
      ELSE {} )

\* variant: the credentials header is withheld when the origin is the wildcard
getCorsHeadersSafeCredentials(q) ==
  IF ~options.cors.enabled THEN {}
  ELSE
    { <<"Access-Control-Allow-Methods", <<"POST, OPTIONS">> >>,
      <<"Access-Control-Allow-Headers", <<"Content-Type, Authorization">> >> }
    \cup
    ( IF ArrayIncludes(options.cors.origins, Wildcard)
        THEN { <<"Access-Control-Allow-Origin", Wildcard>> }
      ELSE IF Truthy(q.origin) /\ ArrayIncludes(options.cors.origins, q.origin)
        THEN { <<"Access-Control-Allow-Origin", q.origin>> }
      ELSE {} )
    \cup
    ( IF options.cors.credentials /\ ~ArrayIncludes(options.cors.origins, Wildcard)
        THEN { <<"Access-Control-Allow-Credentials", <<"true">> >> }
      ELSE {} )

\* private getCorsHeaders(request)
getCorsHeaders(q) ==
  IF ~options.cors.enabled THEN {}
  ELSE
    { <<"Access-Control-Allow-Methods", <<"POST, OPTIONS">> >>,
      <<"Access-Control-Allow-Headers", <<"Content-Type, Authorization">> >> }
    \cup
    ( IF ArrayIncludes(options.cors.origins, Wildcard)
        THEN { <<"Access-Control-Allow-Origin", Wildcard>> }
      ELSE IF Truthy(q.origin) /\ ArrayIncludes(options.cors.origins, q.origin)
        THEN { <<"Access-Control-Allow-Origin", q.origin>> }
      ELSE {} )
    \cup
    ( IF options.cors.credentials
        THEN { <<"Access-Control-Allow-Credentials", <<"true">> >> }
      ELSE {} )

\* getCorsHeaders raises a TypeError: this.options.cors is undefined, or CORS
\* is enabled and origins is undefined (origins.includes)
getCorsHeadersThrows ==
  \/ "cors" \in options.cors.undefined
  \/ options.cors.enabled /\ "origins" \in options.cors.undefined

\* handleCors raises a TypeError: reading this.options.cors.enabled, or in
\* getCorsHeaders
handleCorsThrows ==
  \/ "cors" \in options.cors.undefined
  \/ options.cors.enabled /\ getCorsHeadersThrows

\* variant: the preflight is answered 204 whether or not CORS is enabled
handleCorsAlways(q) == TextResponse(204, None, getCorsHeaders(q))

\* private handleCors(request)
handleCors(q) ==
  IF ~options.cors.enabled THEN TextResponse(403, "CORS disabled", {})
  ELSE TextResponse(204, None, getCorsHeaders(q))

\* ----------------------------------------------------------- validation
\* variant: the Content-Type check is missing
PreBodyResponseNoTypeCheck(q) ==
  IF q.method = "OPTIONS" THEN handleCors(q)
  ELSE IF ~StartsWith(q.path, options.pathPrefix)
    THEN TextResponse(404, "Not Found", {})
  ELSE IF q.method # "POST"
    THEN TextResponse(405, "Method Not Allowed", { <<"Allow", <<"POST, OPTIONS">> >> })
  ELSE IF Truthy(q.contentLength)
          /\ GreaterThan(parseInt(q.contentLength), options.maxBodySize)
    THEN TextResponse(413, "Payload Too Large", {})
  ELSE NoResponse

\* variant: the method is checked before the path
PreBodyResponseMethodFirst(q) ==
  IF q.method = "OPTIONS" THEN handleCors(q)
  ELSE IF q.method # "POST"
    THEN TextResponse(405, "Method Not Allowed", { <<"Allow", <<"POST, OPTIONS">> >> })
  ELSE IF ~StartsWith(q.path, options.pathPrefix)
    THEN TextResponse(404, "Not Found", {})
  ELSE IF ~Truthy(q.contentType) \/ ~Includes(q.contentType, JsonMime)
    THEN TextResponse(400, "Bad Request: Content-Type must be application/json", {})
  ELSE IF Truthy(q.contentLength)
          /\ GreaterThan(parseInt(q.contentLength), options.maxBodySize)
    THEN TextResponse(413, "Payload Too Large", {})
  ELSE NoResponse

\* variant: only GET is refused as a method
PreBodyResponseGetOnly(q) ==
  IF q.method = "OPTIONS" THEN handleCors(q)
  ELSE IF ~StartsWith(q.path, options.pathPrefix)
    THEN TextResponse(404, "Not Found", {})
  ELSE IF q.method = "GET"
    THEN TextResponse(405, "Method Not Allowed", { <<"Allow", <<"POST, OPTIONS">> >> })
  ELSE IF ~Truthy(q.contentType) \/ ~Includes(q.contentType, JsonMime)
    THEN TextResponse(400, "Bad Request: Content-Type must be application/json", {})
  ELSE IF Truthy(q.contentLength)
          /\ GreaterThan(parseInt(q.contentLength), options.maxBodySize)
    THEN TextResponse(413, "Payload Too Large", {})
  ELSE NoResponse

\* handleRequest up to (not including) the body read: the Response it
\* returns, or NoResponse when every check before the body read passes
PreBodyResponse(q) ==
  IF q.method = "OPTIONS" THEN handleCors(q)
  ELSE IF ~StartsWith(q.path, options.pathPrefix)
    THEN TextResponse(404, "Not Found", {})
  ELSE IF q.method # "POST"
    THEN TextResponse(405, "Method Not Allowed", { <<"Allow", <<"POST, OPTIONS">> >> })
  ELSE IF ~Truthy(q.contentType) \/ ~Includes(q.contentType, JsonMime)
    THEN TextResponse(400, "Bad Request: Content-Type must be application/json", {})
  ELSE IF Truthy(q.contentLength)
          /\ GreaterThan(parseInt(q.contentLength), options.maxBodySize)
    THEN TextResponse(413, "Payload Too Large", {})
  ELSE NoResponse

\* JSON.parse(body) succeeds
JSONParses(body) == body = "{\"method\":\"tools/list\"}"

\* ------------------------------------------------------------- promises
PendingPromise == [ state |-> "pending", value |-> NoValue, reason |-> None ]

\* variant: a later resolve replaces the settled result
resolveOverwrites(p, v) ==
  [ state |-> "fulfilled", value |-> v, reason |-> None ]

\* variant: resolve still takes effect on a rejected promise
resolveAfterReject(p, v) ==
  IF p.state # "fulfilled" THEN [ state |-> "fulfilled", value |-> v, reason |-> None ] ELSE p

\* resolve(value) of the promise executor: only the first settlement counts
resolve(p, v) ==
  IF p.state = "pending" THEN [ state |-> "fulfilled", value |-> v, reason |-> None ] ELSE p

\* reject(error)
reject(p, m) ==
  IF p.state = "pending" THEN [ state |-> "rejected", value |-> NoValue, reason |-> m ] ELSE p

clearTimeout(t) == IF t = "armed" THEN "cleared" ELSE t

\* an exchange: the promise of processMessage and its deadline timer
\* responseHandler = (response) => { clearTimeout(timeout); resolve(response) }
responseHandler(ex, v) ==
  [ promise |-> resolve(ex.promise, v), timer |-> clearTimeout(ex.timer) ]

\* variant: the catch rejects without clearing the timer
handlerThrewKeepsTimer(ex, m) ==
  [ promise |-> reject(ex.promise, m), timer |-> ex.timer ]

\* catch (error) { clearTimeout(timeout); reject(error) }
handlerThrew(ex, m) ==
  [ promise |-> reject(ex.promise, m), timer |-> clearTimeout(ex.timer) ]

\* variant: the timer is cleared after every handler call
deliverClearsTimer(ex, b) ==
  IF b.kind = "sink" THEN responseHandler(ex, b.value)
  ELSE IF b.kind = "throw" THEN handlerThrew(ex, b.reason)
  ELSE [ promise |-> ex.promise, timer |-> clearTimeout(ex.timer) ]

\* one handler call of messageHandlers.forEach
deliver(ex, b) ==
  IF b.kind = "sink" THEN responseHandler(ex, b.value)
  ELSE IF b.kind = "throw" THEN handlerThrew(ex, b.reason)
  ELSE ex

\* history: the first completion event among the synchronous behaviours
IsCompletion(b) == b.kind \in { "sink", "throw" }

RECURSIVE firstEvent(_, _)
firstEvent(beh, i) ==
  IF i > Len(beh) THEN [ kind |-> "silent", value |-> NoValue, reason |-> None ]
  ELSE IF IsCompletion(beh[i])
         THEN [ kind |-> beh[i].kind, value |-> beh[i].value, reason |-> beh[i].reason ]
  ELSE firstEvent(beh, i + 1)

RECURSIVE countEvents(_, _)
countEvents(beh, i) ==
  IF i > Len(beh) THEN 0
  ELSE (IF IsCompletion(beh[i]) THEN 1 ELSE 0) + countEvents(beh, i + 1)


\* ------------------------------------------------------------- registry
\* Set.prototype.add keeps insertion order and ignores a present element
SetAdd(seq, h) == IF ArrayIncludes(seq, h) THEN seq ELSE Append(seq, h)

\* Set.prototype.delete
SetDelete(seq, h) == SelectSeq(seq, LAMBDA x : x # h)

\* position of x in the set's entry list, 0 if absent
IndexOf(seq, x) ==
  IF ArrayIncludes(seq, x) THEN CHOOSE i \in 1..Len(seq) : seq[i] = x ELSE 0

\* what a handler's call does to this.messageHandlers, through
\* addEventListener and removeEventListener
applyRegistry(set, b) ==
  CASE b.kind = "subscribe" -> SetAdd(set, b.target)
    [] b.kind = "unsubscribe" -> SetDelete(set, b.target)
    [] b.kind = "resubscribe" -> SetAdd(SetDelete(set, b.target), b.target)
    [] OTHER -> set

\* Set.prototype.forEach walks the live entry list: after the call of entry
\* i the walk goes on with the entry that follows it, which sits at i when
\* the call deleted an entry at or before i
nextIndex(set, i, b) ==
  IF b.kind \in { "unsubscribe", "resubscribe" } /\ IndexOf(set, b.target) \in 1..i
    THEN i ELSE i + 1

\* variant: the walk goes over a copy of the set taken when it starts
RECURSIVE snapshotWalk(_, _, _, _, _, _, _)
snapshotWalk(ex, copy, set, i, beh, k, log) ==
  IF i > Len(copy)
    THEN [ ex |-> ex, set |-> set, log |-> log, calls |-> k - 1, returned |-> TRUE ]
  ELSE IF k > Len(beh)
    THEN [ ex |-> ex, set |-> set, log |-> log, calls |-> k - 1, returned |-> FALSE ]
  ELSE snapshotWalk(deliver(ex, beh[k]), copy, applyRegistry(set, beh[k]), i + 1,
                    beh, k + 1, Append(log, copy[i]))

broadcastSnapshot(ex, set, i, beh, k, log) == snapshotWalk(ex, set, set, i, beh, k, log)

\* variant: the walk ends with the first handler call that completes the
\* exchange or raises
RECURSIVE breakingWalk(_, _, _, _, _, _, _)
breakingWalk(ex, set, i, beh, k, log, over) ==
  IF i > Len(set) \/ over
    THEN [ ex |-> ex, set |-> set, log |-> log, calls |-> k - 1, returned |-> TRUE ]
  ELSE IF k > Len(beh)
    THEN [ ex |-> ex, set |-> set, log |-> log, calls |-> k - 1, returned |-> FALSE ]
  ELSE breakingWalk(deliver(ex, beh[k]), applyRegistry(set, beh[k]), nextIndex(set, i, beh[k]),
                    beh, k + 1, Append(log, set[i]), IsCompletion(beh[k]))

broadcastBreaks(ex, set, i, beh, k, log) == breakingWalk(ex, set, i, beh, k, log, FALSE)

\* this.messageHandlers.forEach(handler => ...): beh[k] is what the k-th
\* handler call does; the result holds the exchange, the set as the calls
\* left it, the handlers called in order, and whether forEach returned
\* within the calls beh describes
RECURSIVE broadcast(_, _, _, _, _, _)
broadcast(ex, set, i, beh, k, log) ==
  IF i > Len(set)
    THEN [ ex |-> ex, set |-> set, log |-> log, calls |-> k - 1, returned |-> TRUE ]
  ELSE IF k > Len(beh)
    THEN [ ex |-> ex, set |-> set, log |-> log, calls |-> k - 1, returned |-> FALSE ]
  ELSE broadcast(deliver(ex, beh[k]), applyRegistry(set, beh[k]), nextIndex(set, i, beh[k]),
                 beh, k + 1, Append(log, set[i]))

\* ---------------------------------------------------------- constructor
OptionKeys == { "pathPrefix", "cors", "maxBodySize", "timeout" }

DefaultMaxBodySize == 1048576
DefaultTimeout == 30000

\* const DEFAULT_OPTIONS
DEFAULT_OPTIONS ==
  [ pathPrefix |-> DefaultPathPrefix,
    cors |-> [ enabled |-> TRUE, origins |-> <<Wildcard>>, credentials |-> FALSE,
               undefined |-> {} ],
    maxBodySize |-> DefaultMaxBodySize,
    timeout |-> DefaultTimeout ]

\* { ...a, ...b }: every key b has, whatever its value, replaces a's; b.present
\* is the set of keys b has
Spread(a, b) == [ k \in OptionKeys |-> IF k \in b.present THEN b[k] ELSE a[k] ]

\* constructor(options = {}): this.options = { ...DEFAULT_OPTIONS, ...options }
WorkersTransportConstructor(o) == Spread(DEFAULT_OPTIONS, o)

\* ----------------------------------------------------------------- Init
\* no utility call, emitter or server beside the transport
NoCall == [ fn |-> "none" ]
NoEmitter == [ used |-> FALSE ]
NoServer == [ step |-> "none" ]

\* the state after new WorkersTransport(o), o drawn from inputs
InitTransport(inputs) ==
  /\ closeCalls = [ h \in Handlers |-> 0 ]
  /\ supplied \in inputs
  /\ options = WorkersTransportConstructor(supplied)
  /\ messageHandlers = <<>>
  /\ closeHandlers = <<>>
  /\ errorHandlers = <<>>
  /\ now = 0
  /\ pc = [ r \in Slots |-> "idle" ]
  /\ req = [ r \in Slots |-> CHOOSE q \in Requests : TRUE ]
  /\ bodyRead = [ r \in Slots |-> FALSE ]
  /\ promise = [ r \in Slots |-> PendingPromise ]
  /\ timer = [ r \in Slots |-> "none" ]
  /\ deadline = [ r \in Slots |-> 0 ]
  /\ created = [ r \in Slots |-> 0 ]
  /\ registered = [ r \in Slots |-> <<>> ]
  /\ reentered = [ r \in Slots |-> FALSE ]
  /\ delivered = [ r \in Slots |-> <<>> ]
  /\ first = [ r \in Slots |-> [ kind |-> "silent", value |-> NoValue, reason |-> None ] ]
  /\ events = [ r \in Slots |-> 0 ]
  /\ sinkCalls = [ r \in Slots |-> 0 ]
  /\ resp = [ r \in Slots |-> NoResponse ]
  /\ respCount = [ r \in Slots |-> 0 ]
  /\ respTime = [ r \in Slots |-> 0 ]

InitFrom(inputs) ==
  /\ compat = NoCall
  /\ emitter = NoEmitter
  /\ server = NoServer
  /\ InitTransport(inputs)

\* every option given, the cors value drawn from corsConfigs
InitWith(corsConfigs) ==
  InitFrom([ present : { OptionKeys },
             pathPrefix : { DefaultPathPrefix },
             cors : corsConfigs,
             maxBodySize : { MaxBody },
             timeout : { Timeout } ])

Init == InitWith(ExchangeCorsConfigs)

InitValidation == InitWith(CorsConfigs)

\* -------------------------------------------------------------- actions
\* handleRequest(request, env), from its call to its first suspension: it
\* returns a rejection (or the preflight answer) or awaits request.text()
HandleRequestOf(r, q) ==
  /\ req' = [ req EXCEPT ![r] = q ]
  /\ IF q.method = "OPTIONS" /\ handleCorsThrows
       THEN /\ pc' = [ pc EXCEPT ![r] = "raised" ]
            /\ UNCHANGED << bodyRead, resp, respCount, respTime >>
     ELSE IF PreBodyResponse(q) # NoResponse
       THEN /\ pc' = [ pc EXCEPT ![r] = "done" ]
            /\ resp' = [ resp EXCEPT ![r] = PreBodyResponse(q) ]
            /\ respCount' = [ respCount EXCEPT ![r] = @ + 1 ]
            /\ respTime' = [ respTime EXCEPT ![r] = now ]
            /\ UNCHANGED bodyRead
       ELSE /\ pc' = [ pc EXCEPT ![r] = "reading" ]
            /\ bodyRead' = [ bodyRead EXCEPT ![r] = TRUE ]
            /\ UNCHANGED << resp, respCount, respTime >>
  /\ UNCHANGED << compat, emitter, server, closeCalls, supplied, options, messageHandlers, closeHandlers, errorHandlers, now, promise, timer, deadline,
                  created, registered, reentered, delivered, first, events, sinkCalls >>

\* a request drawn from reqs arrives
HandleRequest(r, reqs) ==
  /\ pc[r] = "idle"
  /\ now + options.timeout <= MaxTime
  /\ \E q \in reqs : HandleRequestOf(r, q)

\* handleRequest after request.text() resolved: JSON.parse, then
\* processMessage up to the end of the promise executor (timer armed, message
\* broadcast to every registered handler); beh is what each handler does
\* when called
BodyReadWith(r, beh) ==
  /\ IF ~JSONParses(req[r].body)
       THEN /\ pc' = [ pc EXCEPT ![r] = "done" ]
            /\ resp' = [ resp EXCEPT ![r] = TextResponse(400, "Bad Request: Invalid JSON", {}) ]
            /\ respCount' = [ respCount EXCEPT ![r] = @ + 1 ]
            /\ respTime' = [ respTime EXCEPT ![r] = now ]
            /\ UNCHANGED << messageHandlers, promise, timer, deadline, created, registered,
                            reentered, delivered, first, events >>
       ELSE /\ LET run == broadcast([ promise |-> PendingPromise, timer |-> "armed" ],
                                   messageHandlers, 1, beh, 1, <<>>)
               IN /\ run.returned
                  /\ run.calls = Len(beh)
                  /\ promise' = [ promise EXCEPT ![r] = run.ex.promise ]
                  /\ timer' = [ timer EXCEPT ![r] = run.ex.timer ]
                  /\ messageHandlers' = run.set
                  /\ delivered' = [ delivered EXCEPT ![r] = run.log ]
            /\ deadline' = [ deadline EXCEPT ![r] = now + options.timeout ]
            /\ created' = [ created EXCEPT ![r] = now ]
            /\ registered' = [ registered EXCEPT ![r] = messageHandlers ]
            /\ reentered' = [ reentered EXCEPT ![r] =
                                \E k \in 1..Len(beh) : beh[k] \in RegistryBehaviours ]
            /\ first' = [ first EXCEPT ![r] = firstEvent(beh, 1) ]
            /\ events' = [ events EXCEPT ![r] = countEvents(beh, 1) ]
            /\ pc' = [ pc EXCEPT ![r] = "awaiting" ]
            /\ UNCHANGED << resp, respCount, respTime >>
  /\ UNCHANGED << compat, emitter, server, closeCalls, supplied, options, closeHandlers, errorHandlers, now, req, bodyRead, sinkCalls >>

BehaviourVectors == UNION { [ 1..n -> SyncBehaviours ] : n \in 0..MaxHandlers }

\* the body read completes, the handlers behaving in any way
BodyRead(r) ==
  /\ pc[r] = "reading"
  /\ \E beh \in BehaviourVectors : BodyReadWith(r, beh)

\* handler calls of one broadcast when handlers change the registry: a
\* handler subscribed meanwhile or subscribed again is called as well
MaxCalls == MaxHandlers + 1

ReentrantVectors == UNION { [ 1..n -> ReentrantBehaviours ] : n \in 0..MaxCalls }

\* the body read completes, the handlers also changing the registry
BodyReadReentrant(r) ==
  /\ pc[r] = "reading"
  /\ \E beh \in ReentrantVectors : BodyReadWith(r, beh)

\* a handler that received the message invokes the completion sink later
\* (message._responseHandler(v)), possibly after the exchange is settled or
\* answered
SinkInvoke(r, h, v) ==
  /\ pc[r] \in { "awaiting", "done" }
  /\ ArrayIncludes(delivered[r], h)
  /\ sinkCalls[r] < MaxSinkCalls
  /\ sinkCalls' = [ sinkCalls EXCEPT ![r] = @ + 1 ]
  /\ LET ex == responseHandler([ promise |-> promise[r], timer |-> timer[r] ], v)
     IN /\ promise' = [ promise EXCEPT ![r] = ex.promise ]
        /\ timer' = [ timer EXCEPT ![r] = ex.timer ]
  /\ first' = [ first EXCEPT ![r] =
                  IF events[r] = 0 THEN [ kind |-> "sink", value |-> v, reason |-> None ] ELSE @ ]
  /\ events' = [ events EXCEPT ![r] = @ + 1 ]
  /\ UNCHANGED << compat, emitter, server, closeCalls, supplied, options, messageHandlers, closeHandlers, errorHandlers, now, pc, req, bodyRead, deadline,
                  created, registered, reentered, delivered, resp, respCount, respTime >>

\* variant: one timer shared by the requests in flight
TimerFireShared(r) ==
  /\ timer[r] = "armed"
  /\ now >= deadline[r]
  /\ timer' = [ s \in Slots |-> IF timer[s] = "armed" THEN "fired" ELSE timer[s] ]
  /\ promise' = [ s \in Slots |->
                    IF timer[s] = "armed" THEN reject(promise[s], TimeoutMessage) ELSE promise[s] ]
  /\ first' = [ first EXCEPT ![r] =
                  IF events[r] = 0 THEN [ kind |-> "timeout", value |-> NoValue, reason |-> TimeoutMessage ] ELSE @ ]
  /\ events' = [ events EXCEPT ![r] = @ + 1 ]
  /\ UNCHANGED << compat, emitter, server, closeCalls, supplied, options, messageHandlers, closeHandlers, errorHandlers, now, pc, req, bodyRead, deadline,
                  created, registered, reentered, delivered, sinkCalls, resp, respCount, respTime >>

\* variant: the timer callback also drops the registered handlers
TimerFireUnsubscribes(r) ==
  /\ timer[r] = "armed"
  /\ now >= deadline[r]
  /\ timer' = [ timer EXCEPT ![r] = "fired" ]
  /\ promise' = [ promise EXCEPT ![r] = reject(@, TimeoutMessage) ]
  /\ first' = [ first EXCEPT ![r] =
                  IF events[r] = 0 THEN [ kind |-> "timeout", value |-> NoValue, reason |-> TimeoutMessage ] ELSE @ ]
  /\ events' = [ events EXCEPT ![r] = @ + 1 ]
  /\ messageHandlers' = <<>>
  /\ UNCHANGED << compat, emitter, server, closeCalls, supplied, options, closeHandlers, errorHandlers, now, pc, req, bodyRead, deadline,
                  created, registered, reentered, delivered, sinkCalls, resp, respCount, respTime >>

\* the deadline timer fires: reject(new Error('Request timeout'))
TimerFire(r) ==
  /\ timer[r] = "armed"
  /\ now >= deadline[r]
  /\ timer' = [ timer EXCEPT ![r] = "fired" ]
  /\ promise' = [ promise EXCEPT ![r] = reject(@, TimeoutMessage) ]
  /\ first' = [ first EXCEPT ![r] =
                  IF events[r] = 0 THEN [ kind |-> "timeout", value |-> NoValue, reason |-> TimeoutMessage ] ELSE @ ]
  /\ events' = [ events EXCEPT ![r] = @ + 1 ]
  /\ UNCHANGED << compat, emitter, server, closeCalls, supplied, options, messageHandlers, closeHandlers, errorHandlers, now, pc, req, bodyRead, deadline,
                  created, registered, reentered, delivered, sinkCalls, resp, respCount, respTime >>

\* the Error object behind a rejection reason: new Error(m), with the stack
\* text the runtime attaches to it
StackOf(m) ==
  IF m = TimeoutMessage THEN "Error: Request timeout at processMessage"
  ELSE "Error: boom at handler"
ErrorObject(m) == [ instanceOfError |-> TRUE, message |-> m, stack |-> StackOf(m) ]

\* variant: the stack is sent as the detail
errorDataStack(e) == e.stack

\* error instanceof Error ? error.message : String(error)
errorData(e) == IF e.instanceOfError THEN e.message ELSE "[object Object]"

\* the Response handleRequest builds once `await this.processMessage(...)`
\* has settled: 200 with the serialized result, or the catch block's 500
ComposedResponse(p, q) ==
  IF p.state = "fulfilled"
    THEN [ status |-> 200, text |-> None, json |-> JSONStringify(p.value),
           headers |-> { <<"Content-Type", JsonMime>> } \cup getCorsHeaders(q) ]
    ELSE [ status |-> 500, text |-> None,
           json |-> ErrorEnvelope(InternalErrorCode, "Internal error",
                                  errorData(ErrorObject(p.reason))),
           headers |-> { <<"Content-Type", JsonMime>> } \cup getCorsHeaders(q) ]

\* variant: the catch block of handleRequest also closes the transport
ComposeClosesOnError(r) ==
  /\ pc[r] = "awaiting"
  /\ promise[r].state # "pending"
  /\ pc' = [ pc EXCEPT ![r] = "done" ]
  /\ resp' = [ resp EXCEPT ![r] = ComposedResponse(promise[r], req[r]) ]
  /\ respCount' = [ respCount EXCEPT ![r] = @ + 1 ]
  /\ respTime' = [ respTime EXCEPT ![r] = now ]
  /\ messageHandlers' = IF promise[r].state = "rejected" THEN <<>> ELSE messageHandlers
  /\ UNCHANGED << compat, emitter, server, closeCalls, supplied, options, closeHandlers, errorHandlers, now, req, bodyRead, promise, timer,
                  deadline, created, registered, reentered, delivered, first, events, sinkCalls >>

\* handleRequest resumes after the await and returns its Response; when
\* getCorsHeaders raises, it raises in the try block and again in the catch
\* block, and the promise of handleRequest is rejected
Compose(r) ==
  /\ pc[r] = "awaiting"
  /\ promise[r].state # "pending"
  /\ IF getCorsHeadersThrows
       THEN /\ pc' = [ pc EXCEPT ![r] = "raised" ]
            /\ UNCHANGED << resp, respCount, respTime >>
       ELSE /\ pc' = [ pc EXCEPT ![r] = "done" ]
            /\ resp' = [ resp EXCEPT ![r] = ComposedResponse(promise[r], req[r]) ]
            /\ respCount' = [ respCount EXCEPT ![r] = @ + 1 ]
            /\ respTime' = [ respTime EXCEPT ![r] = now ]
  /\ UNCHANGED << compat, emitter, server, closeCalls, supplied, options, messageHandlers, closeHandlers, errorHandlers, now, req, bodyRead, promise, timer,
                  deadline, created, registered, reentered, delivered, first, events, sinkCalls >>

registry == << messageHandlers, closeHandlers, errorHandlers >>

EventNames == { "message", "close", "error" }

\* addEventListener(event, handler), called for a handler not yet in the set
AddEventListener(event, h) ==
  /\ messageHandlers' = IF event = "message" THEN SetAdd(messageHandlers, h) ELSE messageHandlers
  /\ closeHandlers' = IF event = "close" THEN SetAdd(closeHandlers, h) ELSE closeHandlers
  /\ errorHandlers' = IF event = "error" THEN SetAdd(errorHandlers, h) ELSE errorHandlers
  /\ registry' # registry
  /\ UNCHANGED << compat, emitter, server, closeCalls, supplied, options, now >>
  /\ UNCHANGED reqVars

\* removeEventListener(event, handler), called for a handler in the set
RemoveEventListener(event, h) ==
  /\ messageHandlers' = IF event = "message" THEN SetDelete(messageHandlers, h) ELSE messageHandlers
  /\ closeHandlers' = IF event = "close" THEN SetDelete(closeHandlers, h) ELSE closeHandlers
  /\ errorHandlers' = IF event = "error" THEN SetDelete(errorHandlers, h) ELSE errorHandlers
  /\ registry' # registry
  /\ UNCHANGED << compat, emitter, server, closeCalls, supplied, options, now >>
  /\ UNCHANGED reqVars

\* variant: close leaves the message handlers subscribed
CloseKeepsMessageHandlers ==
  /\ closeCalls' = [ h \in Handlers |->
                       closeCalls[h] + (IF ArrayIncludes(closeHandlers, h) THEN 1 ELSE 0) ]
  /\ closeHandlers' = <<>>
  /\ errorHandlers' = <<>>
  /\ UNCHANGED << compat, emitter, server, supplied, options, messageHandlers, now >>
  /\ UNCHANGED reqVars

\* close(): the close handlers are called, then the three sets are cleared
Close ==
  /\ closeCalls' = [ h \in Handlers |->
                       closeCalls[h] + (IF ArrayIncludes(closeHandlers, h) THEN 1 ELSE 0) ]
  /\ messageHandlers' = <<>>
  /\ closeHandlers' = <<>>
  /\ errorHandlers' = <<>>
  /\ UNCHANGED << compat, emitter, server, supplied, options, now >>
  /\ UNCHANGED reqVars

\* the clock advances by one tick, up to the horizon; due timers and settled
\* awaits run first
TickUntil(horizon) ==
  /\ now < horizon
  /\ \A r \in Slots : ~(timer[r] = "armed" /\ now >= deadline[r])
  /\ \A r \in Slots : ~(pc[r] = "awaiting" /\ promise[r].state # "pending")
  /\ now' = now + 1
  /\ UNCHANGED << compat, emitter, server, closeCalls, supplied, options, messageHandlers, closeHandlers, errorHandlers >>
  /\ UNCHANGED reqVars

Tick == TickUntil(MaxTime)

Next ==
  \/ HandleRequest(1, ExchangeRequests)
  \/ BodyRead(1)
  \/ \E h \in Handlers, v \in PlainValues : SinkInvoke(1, h, v)
  \/ TimerFire(1)
  \/ Compose(1)
  \/ \E h \in Handlers : AddEventListener("message", h)
  \/ \E h \in Handlers : RemoveEventListener("message", h)
  \/ Close
  \/ Tick

Spec == Init /\ [][Next]_vars

\* the concurrent specification: two requests in flight at once, each a
\* well-formed POST or a GET, one CORS configuration
ConcurrentRequests ==
  { q \in ExchangeRequests :
      q.origin = Absent /\ (q.method = "POST" => q.body # "not json") }

NextConcurrent ==
  \/ \E r \in Slots : HandleRequest(r, ConcurrentRequests)
  \/ \E r \in Slots : BodyRead(r)
  \/ \E r \in Slots, h \in Handlers, v \in SinkValues : SinkInvoke(r, h, v)
  \/ \E r \in Slots : TimerFire(r)
  \/ \E r \in Slots : Compose(r)
  \/ AddEventListener("message", 1)
  \/ Close
  \/ Tick

SpecConcurrent == Init /\ [][NextConcurrent]_vars

\* the sequential specification: the second request arrives after the first
\* has been answered, late enough to follow a timeout
LateTime == 2 * Timeout + 1

LaterRequest(r, reqs) ==
  /\ pc[1] = "done"
  /\ pc[r] = "idle"
  /\ now + options.timeout <= LateTime
  /\ \E q \in reqs : HandleRequestOf(r, q)

NextSequential ==
  \/ HandleRequest(1, ConcurrentRequests)
  \/ LaterRequest(2, ConcurrentRequests)
  \/ \E r \in Slots : BodyRead(r)
  \/ \E r \in Slots, h \in Handlers, v \in SinkValues : SinkInvoke(r, h, v)
  \/ \E r \in Slots : TimerFire(r)
  \/ \E r \in Slots : Compose(r)
  \/ AddEventListener("message", 1)
  \/ RemoveEventListener("message", 1)
  \/ TickUntil(LateTime)

SpecSequential == Init /\ [][NextSequential]_vars

\* the broadcast specification: one request, handlers that subscribe and
\* unsubscribe handlers while they are being called; the clock stands still
NextBroadcast ==
  \/ HandleRequest(1, ConcurrentRequests)
  \/ BodyReadReentrant(1)
  \/ \E h \in Handlers, v \in PlainValues : SinkInvoke(1, h, v)
  \/ Compose(1)
  \/ \E h \in Handlers : AddEventListener("message", h)
  \/ \E h \in Handlers : RemoveEventListener("message", h)

SpecBroadcast == Init /\ [][NextBroadcast]_vars

\* the options specification: the constructor is called with any options
\* value it accepts, directly or by the WorkersFastMCP constructor
UndefinedCors ==
  [ enabled |-> FALSE, origins |-> <<>>, credentials |-> FALSE,
    undefined |-> CorsKeys \cup { "cors" } ]

\* cors values a caller may pass: each key given or left out
SuppliedCors ==
  { c \in [ enabled : BOOLEAN, origins : { <<Wildcard>>, <<OriginA>>, <<>> },
            credentials : BOOLEAN, undefined : SUBSET CorsKeys ] :
      /\ "enabled" \in c.undefined => ~c.enabled
      /\ "origins" \in c.undefined => c.origins = <<>>
      /\ "credentials" \in c.undefined => ~c.credentials }
  \cup { UndefinedCors }

OtherPathPrefix == <<"/", "a">>

\* WorkersTransportOptions values: each key given or left out (a key left
\* out holds the value listed first here)
SuppliedOptions ==
  { o \in [ present : SUBSET OptionKeys,
            pathPrefix : { DefaultPathPrefix, OtherPathPrefix },
            cors : SuppliedCors,
            maxBodySize : { MaxBody },
            timeout : { Timeout } ] :
      /\ "pathPrefix" \notin o.present => o.pathPrefix = DefaultPathPrefix
      /\ "cors" \notin o.present => o.cors = UndefinedCors }

\* const DEFAULT_SERVER_OPTIONS (its transport)
DEFAULT_SERVER_TRANSPORT ==
  [ present |-> { "pathPrefix", "cors" },
    pathPrefix |-> DefaultPathPrefix,
    cors |-> DEFAULT_OPTIONS.cors,
    maxBodySize |-> MaxBody,
    timeout |-> Timeout ]

\* WorkersServerOptions as far as the transport is concerned: the transport
\* and cors keys, each given or left out
ServerOptions ==
  { s \in [ present : SUBSET { "transport", "cors" },
            transport : { o \in SuppliedOptions : "pathPrefix" \notin o.present }
                          \cup { DEFAULT_SERVER_TRANSPORT },
            cors : { c \in SuppliedCors : c.undefined = {} /\ c.origins # <<>> } \cup { UndefinedCors } ] :
      /\ "cors" \notin s.present => s.cors = UndefinedCors
      /\ "cors" \in s.present => s.cors # UndefinedCors
      /\ "transport" \notin s.present => s.transport = DEFAULT_SERVER_TRANSPORT }

\* WorkersFastMCP constructor: this.options = { ...DEFAULT_SERVER_OPTIONS,
\* ...options }, then transportOptions = { ...this.options.transport,
\* cors: this.options.cors || this.options.transport?.cors }
transportOptions(s) ==
  LET transport == IF "transport" \in s.present THEN s.transport ELSE DEFAULT_SERVER_TRANSPORT
  IN [ transport EXCEPT
         !.present = @ \cup { "cors" },
         !.cors = IF "cors" \in s.present THEN s.cors
                  ELSE IF "cors" \in transport.present THEN transport.cors
                  ELSE UndefinedCors ]

OptionRequests ==
  { q \in Requests :
      /\ q.method \in { "POST", "OPTIONS" }
      /\ q.path \in { DefaultPathPrefix, <<"/", "a", "/", "m", "c", "p">> }
      /\ q.contentType = JsonMime
      /\ q.contentLength = Absent
      /\ q.origin \in { Absent, OriginA }
      /\ JSONParses(q.body) }

InitOptions == InitFrom(SuppliedOptions \cup { transportOptions(s) : s \in ServerOptions })

\* a request arrives before the clock has advanced
FirstRequest(r, reqs) ==
  /\ pc[r] = "idle"
  /\ now = 0
  /\ \E q \in reqs : HandleRequestOf(r, q)

NextOptions ==
  \/ FirstRequest(1, OptionRequests)
  \/ BodyRead(1)
  \/ Compose(1)
  \/ AddEventListener("message", 1)

SpecOptions == InitOptions /\ [][NextOptions]_vars

\* the close specification: two requests, close handlers, and close() at any
\* time, as long as it has called no handler MaxCloses times
MaxCloses == 1

CloseRequests == { q \in ConcurrentRequests : q.method = "POST" }

CloseCapped ==
  /\ \A h \in Handlers : closeCalls[h] < MaxCloses
  /\ Close

\* the body read completes, the handlers answering later or never
BodyReadSilent(r) ==
  /\ pc[r] = "reading"
  /\ \E beh \in { b \in BehaviourVectors : \A k \in 1..Len(b) : b[k].kind = "silent" } :
       BodyReadWith(r, beh)

NextClose ==
  \/ FirstRequest(1, CloseRequests)
  \/ HandleRequest(2, CloseRequests)
  \/ \E r \in Slots : BodyReadSilent(r)
  \/ SinkInvoke(1, 1, CHOOSE v \in PlainValues : v.data = "r1")
  \/ \E r \in Slots : TimerFire(r)
  \/ \E r \in Slots : Compose(r)
  \/ AddEventListener("message", 1)
  \/ \E h \in 1..2 : AddEventListener("close", h)
  \/ CloseCapped
  \/ Tick

SpecClose == Init /\ [][NextClose]_vars

\* the environment specification: two requests whose env values vary, and
\* handlers that answer with the message they were given
EnvRequests ==
  { [ q EXCEPT !.env = e ] : q \in { p \in ConcurrentRequests : p.method = "POST" },
                              e \in { None, "env1", "env2" } }

\* handler({ ...message, _responseHandler: responseHandler, _env: env })
ReceivedMessage(r) ==
  [ data |-> req[r].body, env |-> req[r].env, responseHandler |-> TRUE, error |-> FALSE ]

\* send(message): handler h passes on the message it was given
Send(r, h) ==
  /\ ReceivedMessage(r).responseHandler
  /\ SinkInvoke(r, h, ReceivedMessage(r))

NextEnv ==
  \/ \E r \in Slots : HandleRequest(r, EnvRequests)
  \/ \E r \in Slots : BodyRead(r)
  \/ \E r \in Slots, h \in Handlers : Send(r, h)
  \/ \E r \in Slots : Compose(r)
  \/ AddEventListener("message", 1)

SpecEnv == Init /\ [][NextEnv]_vars

\* ------------------------------------------------------- WorkersFastMCP
\* the instance fields of class WorkersFastMCP in the order of the class
\* body; engine: the initializer reads a member of this.fastmcp when it is
\* evaluated (addTool, addResource and addPrompt are arrow functions whose
\* bodies read it only when they are called)
Members ==
  << [ name |-> "fastmcp", initializer |-> FALSE, engine |-> FALSE ],
     [ name |-> "transport", initializer |-> FALSE, engine |-> FALSE ],
     [ name |-> "options", initializer |-> FALSE, engine |-> FALSE ],
     [ name |-> "addTool", initializer |-> TRUE, engine |-> FALSE ],
     [ name |-> "addResource", initializer |-> TRUE, engine |-> FALSE ],
     [ name |-> "addResourceTemplate", initializer |-> TRUE, engine |-> TRUE ],
     [ name |-> "addPrompt", initializer |-> TRUE, engine |-> FALSE ],
     [ name |-> "embedded", initializer |-> TRUE, engine |-> TRUE ] >>

\* the field initializers run in the order of the class body, before the
\* first statement of the constructor; reading a member of this.fastmcp
\* while it is undefined raises a TypeError
RECURSIVE fieldInitializers(_, _)
fieldInitializers(inst, i) ==
  IF i > Len(Members) THEN inst
  ELSE IF ~Members[i].initializer THEN fieldInitializers(inst, i + 1)
  ELSE IF Members[i].engine /\ ~inst.fastmcp THEN [ inst EXCEPT !.error = "TypeError" ]
  ELSE fieldInitializers([ inst EXCEPT !.evaluated = Append(@, Members[i].name) ], i + 1)

\* the statements of the constructor: the runtime assertion, the
\* compatibility assertion unless skipped, the transport, the engine, and
\* the transport's message handler
constructorBody(inst, o) ==
  IF o.runtime # "workers" THEN [ inst EXCEPT !.error = "Error: runtime" ]
  ELSE IF ~o.skipCompatibilityCheck /\ ~o.compatible
    THEN [ inst EXCEPT !.error = "Error: compatibility" ]
  ELSE [ inst EXCEPT !.transport = TRUE, !.fastmcp = TRUE, !.connected = TRUE ]

\* new WorkersFastMCP(options)
WorkersFastMCPConstructor(o) ==
  LET NewInstance == [ fastmcp |-> FALSE, transport |-> FALSE, connected |-> FALSE,
                       evaluated |-> << >>, error |-> None ]
      fields == fieldInitializers(NewInstance, 1)
  IN IF fields.error # None THEN fields ELSE constructorBody(fields, o)

\* what a worker script is evaluated with: the options, the runtime it
\* runs in, and whether the engine passes the compatibility check
ServerInputs ==
  [ options : ServerOptions, skipCompatibilityCheck : BOOLEAN,
    runtime : { "workers", "node" }, compatible : BOOLEAN ]

InitServer ==
  /\ compat = NoCall
  /\ emitter = NoEmitter
  /\ server \in { [ step |-> "new", input |-> i ] : i \in ServerInputs }
  /\ InitTransport([ present : { {} }, pathPrefix : { DefaultPathPrefix }, cors : { UndefinedCors },
                     maxBodySize : { MaxBody }, timeout : { Timeout } ])

\* const server = new WorkersFastMCP({ name, version, ... });
\* export default server.toWorkerHandler()
WorkerScript ==
  /\ server.step = "new"
  /\ LET instance == WorkersFastMCPConstructor(server.input)
     IN server' = [ step |-> IF instance.error = None THEN "exported" ELSE "raised",
                    input |-> server.input,
                    instance |-> instance,
                    handler |-> instance.error = None ]
  /\ UNCHANGED << compat, emitter >>
  /\ UNCHANGED transportVars

NextServer == WorkerScript

SpecServer == InitServer /\ [][NextServer]_vars

\* -------------------------------------------------- WorkersEventEmitter
MaxRegistrations == 3

EmitterEvents == { "data", "end" }

\* listener functions; "bad" raises when it is called
ListenerFns == { "f", "bad" }

\* new WorkersEventEmitter(): events is an empty Map; has is its key set
NewEmitter ==
  [ used |-> TRUE, has |-> {}, events |-> [ e \in EmitterEvents |-> << >> ], next |-> 1,
    fired |-> {},
    last |-> [ event |-> None, before |-> << >>, called |-> << >>, returned |-> FALSE,
               repeated |-> FALSE ] ]

\* Array.prototype.splice(index, 1)
Splice(list, index) == [ i \in 1..(Len(list) - 1) |-> IF i < index THEN list[i] ELSE list[i + 1] ]

\* off(event, listener) on the array of the event: the first entry that is
\* the function given goes; a listener registered by once sits in the array
\* as its wrapper, which only the wrapper itself can name (wrapper = its id)
off(list, fn, wrapper) ==
  LET Is(x) == IF wrapper = 0 THEN x.fn = fn /\ ~x.once ELSE x.id = wrapper
      found == { i \in 1..Len(list) : Is(list[i]) }
  IN IF found = {} THEN list
     ELSE Splice(list, CHOOSE i \in found : \A j \in found : i <= j)

\* listeners.forEach(...) of emit: Array.prototype.forEach reads the length
\* once and then visits the indices below it that the array still has; an
\* entry registered by once is a wrapper that first takes itself off the
\* array (this.off(event, onceWrapper)) and then calls the listener; what a
\* listener raises is caught and logged
RECURSIVE forEach(_, _, _, _)
forEach(list, k, len, called) ==
  IF k > len THEN [ list |-> list, called |-> called ]
  ELSE IF k > Len(list) THEN forEach(list, k + 1, len, called)
  ELSE LET entry == list[k]
           after == IF entry.once THEN off(list, entry.fn, entry.id) ELSE list
       IN forEach(after, k + 1, len, Append(called, entry.id))

InitEmitter ==
  /\ compat = NoCall
  /\ server = NoServer
  /\ emitter = NewEmitter
  /\ InitTransport([ present : { {} }, pathPrefix : { DefaultPathPrefix }, cors : { UndefinedCors },
                     maxBodySize : { MaxBody }, timeout : { Timeout } ])

EmitterStep(next) ==
  /\ emitter.used
  /\ emitter' = next
  /\ UNCHANGED << compat, server >>
  /\ UNCHANGED transportVars

\* on(event, listener), reached from once with the wrapper as well
Register(event, fn, once) ==
  /\ emitter.next <= MaxRegistrations
  /\ EmitterStep([ emitter EXCEPT
                     !.has = @ \cup { event },
                     !.events[event] = Append(@, [ id |-> emitter.next, fn |-> fn, once |-> once ]),
                     !.next = @ + 1 ])

On(event, fn) == Register(event, fn, FALSE)

Once(event, fn) == Register(event, fn, TRUE)

\* off(event, listener) called from outside: a listener registered by once
\* sits in the array as its wrapper and is not found
Off(event, fn) ==
  /\ EmitterStep([ emitter EXCEPT
                     !.events[event] = IF event \in emitter.has
                                         THEN off(@, fn, 0)
                                         ELSE @ ])

\* emit(event, ...args)
Emit(event) ==
  LET listeners == emitter.events[event]
      run == forEach(listeners, 1, Len(listeners), << >>)
      onceIds(list) == { list[i].id : i \in { j \in 1..Len(list) : list[j].once } }
      calledOnce == { id \in onceIds(listeners) : \E i \in 1..Len(run.called) : run.called[i] = id }
  IN IF event \in emitter.has /\ Len(listeners) > 0
       THEN EmitterStep([ emitter EXCEPT
                            !.events[event] = run.list,
                            !.fired = @ \cup calledOnce,
                            !.last = [ event |-> event, before |-> listeners,
                                       called |-> run.called, returned |-> TRUE,
                                       repeated |-> calledOnce \cap emitter.fired # {} ] ])
       ELSE EmitterStep([ emitter EXCEPT
                            !.last = [ event |-> event, before |-> listeners,
                                       called |-> << >>, returned |-> FALSE,
                                       repeated |-> FALSE ] ])

\* removeAllListeners(event)
RemoveAllListeners(event) ==
  /\ event \in emitter.has
  /\ EmitterStep([ emitter EXCEPT !.has = @ \ { event }, !.events[event] = << >> ])

NextEmitter ==
  \/ \E event \in EmitterEvents, fn \in ListenerFns : On(event, fn)
  \/ \E event \in EmitterEvents, fn \in ListenerFns : Once(event, fn)
  \/ \E event \in EmitterEvents, fn \in ListenerFns : Off(event, fn)
  \/ \E event \in EmitterEvents : Emit(event)
  \/ \E event \in EmitterEvents : RemoveAllListeners(event)

SpecEmitter == InitEmitter /\ [][NextEmitter]_vars

\* ------------------------------------------------ interface validation
\* JavaScript values as far as the validators look at them: the kind of the
\* value, and for the objects they look into, the kinds of their entries
TypeOf(kind) == IF kind \in { "null", "array", "object" } THEN "object" ELSE kind

MaxArgs == 1

When(cond, text) == IF cond THEN << text >> ELSE << >>

\* an entry of tool.annotations: "absent" when the object has no such key
AnnotationEntryIssues(key, kind) ==
  IF kind = "absent" THEN << >>
  ELSE IF key = "title"
    THEN When(TypeOf(kind) # "string", "Tool annotation title must be a string")
  ELSE IF key = "readOnlyHint"
    THEN When(TypeOf(kind) # "boolean", "Tool annotation readOnlyHint must be a boolean")
  ELSE << >>

AnnotationIssues(a) ==
  IF a.kind = "undefined" THEN << >>
  ELSE IF TypeOf(a.kind) # "object" \/ a.kind = "null"
    THEN << "Tool annotations must be an object or undefined" >>
  ELSE AnnotationEntryIssues("title", a.title)
         \o AnnotationEntryIssues("readOnlyHint", a.readOnlyHint)
         \o AnnotationEntryIssues("custom", a.custom)

Result(issues) == [ valid |-> Len(issues) = 0, issues |-> issues ]

\* variant: the execute check is missing
validateToolDefinitionNoExecute(tool) ==
  Result(
    When(TypeOf(tool.name) # "string", "Tool name must be a string")
    \o When(TypeOf(tool.description) # "string", "Tool description must be a string")
    \o When(tool.parameters # "undefined"
              /\ (TypeOf(tool.parameters) # "object" \/ tool.parameters = "null"),
            "Tool parameters must be an object (schema) or undefined")
    \o AnnotationIssues(tool.annotations)
    \o When(tool.canAccess # "undefined" /\ TypeOf(tool.canAccess) # "function",
            "Tool canAccess must be a function or undefined")
    \o When(tool.timeoutMs # "undefined" /\ TypeOf(tool.timeoutMs) # "number",
            "Tool timeoutMs must be a number or undefined") )

validateToolDefinition(tool) ==
  Result(
    When(TypeOf(tool.name) # "string", "Tool name must be a string")
    \o When(TypeOf(tool.description) # "string", "Tool description must be a string")
    \o When(TypeOf(tool.execute) # "function", "Tool execute must be a function")
    \o When(tool.parameters # "undefined"
              /\ (TypeOf(tool.parameters) # "object" \/ tool.parameters = "null"),
            "Tool parameters must be an object (schema) or undefined")
    \o AnnotationIssues(tool.annotations)
    \o When(tool.canAccess # "undefined" /\ TypeOf(tool.canAccess) # "function",
            "Tool canAccess must be a function or undefined")
    \o When(tool.timeoutMs # "undefined" /\ TypeOf(tool.timeoutMs) # "number",
            "Tool timeoutMs must be a number or undefined") )

validateResourceDefinition(resource) ==
  Result(
    When(TypeOf(resource.uri) # "string", "Resource uri must be a string")
    \o When(TypeOf(resource.name) # "string", "Resource name must be a string")
    \o When(TypeOf(resource.load) # "function", "Resource load must be a function")
    \o When(resource.mimeType # "undefined" /\ TypeOf(resource.mimeType) # "string",
            "Resource mimeType must be a string or undefined") )

\* the callback of prompt.arguments.forEach
ArgumentIssues(arg) ==
  IF TypeOf(arg.kind) # "object" \/ arg.kind = "null"
    THEN << "Prompt argument must be an object" >>
  ELSE When(TypeOf(arg.name) # "string", "Prompt argument name must be a string")
       \o When(arg.description # "undefined" /\ TypeOf(arg.description) # "string",
               "Prompt argument description must be a string or undefined")
       \o When(arg.required # "undefined" /\ TypeOf(arg.required) # "boolean",
               "Prompt argument required must be a boolean or undefined")

\* prompt.arguments.forEach((arg, index) => ...): each text carries the index
RECURSIVE ArgumentsIssues(_, _)
ArgumentsIssues(items, i) ==
  IF i > Len(items) THEN << >>
  ELSE [ k \in 1..Len(ArgumentIssues(items[i])) |-> << ArgumentIssues(items[i])[k], i - 1 >> ]
         \o ArgumentsIssues(items, i + 1)

validatePromptDefinition(prompt) ==
  Result(
    When(TypeOf(prompt.name) # "string", "Prompt name must be a string")
    \o When(TypeOf(prompt.load) # "function", "Prompt load must be a function")
    \o When(prompt.description # "undefined" /\ TypeOf(prompt.description) # "string",
            "Prompt description must be a string or undefined")
    \o ( IF prompt.arguments.kind = "undefined" THEN << >>
         ELSE IF prompt.arguments.kind # "array"
           THEN << "Prompt arguments must be an array or undefined" >>
         ELSE ArgumentsIssues(prompt.arguments.items, 1) ) )

validateServerOptions(o) ==
  Result(
    When(TypeOf(o.name) # "string", "Server options name must be a string")
    \o When(TypeOf(o.version) # "string", "Server options version must be a string")
    \o When(o.description # "undefined" /\ TypeOf(o.description) # "string",
            "Server options description must be a string or undefined")
    \o When(o.instructions # "undefined" /\ TypeOf(o.instructions) # "string",
            "Server options instructions must be a string or undefined")
    \o When(o.authenticate # "undefined" /\ TypeOf(o.authenticate) # "function",
            "Server options authenticate must be a function or undefined") )

\* ------------------------------------------------------- version check
\* String.prototype.split(".")
RECURSIVE Split(_, _, _, _)
Split(s, i, cur, acc) ==
  IF i > Len(s) THEN Append(acc, cur)
  ELSE IF s[i] = "." THEN Split(s, i + 1, << >>, Append(acc, cur))
  ELSE Split(s, i + 1, Append(cur, s[i]), acc)

\* Number(string) for the strings met here: 0 for the empty string, the
\* value of a run of decimal digits, negated after a leading "-", NaN
\* otherwise
Number(s) ==
  IF Len(s) = 0 THEN [ nan |-> FALSE, n |-> 0 ]
  ELSE IF AllDigits(s) THEN [ nan |-> FALSE, n |-> DigitPrefixValue(s, 1, 0) ]
  ELSE IF s[1] = "-" /\ AllDigits(Tail(s))
    THEN [ nan |-> FALSE, n |-> 0 - DigitPrefixValue(Tail(s), 1, 0) ]
  ELSE NaN

SUPPORTED_FASTMCP_VERSIONS ==
  [ minimum |-> <<"3", ".", "0", ".", "0">>,
    maximum |-> <<"4", ".", "0", ".", "0">>,
    tested |-> << <<"3", ".", "1", "2", ".", "0">> >> ]

\* function isVersionSupported(version)
isVersionSupported(version) ==
  LET Parts(string) ==
        LET strings == Split(string, 1, << >>, << >>)
        IN [ i \in 1..Len(strings) |-> Number(strings[i]) ]
      v == Parts(version)
      lo == Parts(SUPPORTED_FASTMCP_VERSIONS.minimum)
      hi == Parts(SUPPORTED_FASTMCP_VERSIONS.maximum)
  IN IF Len(v) # 3 \/ Len(lo) # 3 \/ Len(hi) # 3 THEN FALSE
     ELSE IF \E i \in 1..3 : v[i].nan \/ lo[i].nan \/ hi[i].nan THEN FALSE
     ELSE IF v[1].n < lo[1].n THEN FALSE
     ELSE IF v[1].n = lo[1].n /\ v[2].n < lo[2].n THEN FALSE
     ELSE IF v[1].n = lo[1].n /\ v[2].n = lo[2].n /\ v[3].n < lo[3].n THEN FALSE
     ELSE IF v[1].n >= hi[1].n THEN FALSE
     ELSE IF v[1].n = hi[1].n - 1 /\ v[2].n >= hi[2].n THEN FALSE
     ELSE IF v[1].n = hi[1].n - 1 /\ v[2].n = hi[2].n - 1 /\ v[3].n >= hi[3].n THEN FALSE
     ELSE TRUE

\* ------------------------------------- the compatibility specification
\* the calls of the compatibility functions: the validators with every
\* combination of value kinds for the fields they read, isVersionSupported
\* with version strings of one to four parts joined by "."
CompatCalls ==
  LET RequiredString == { "string", "undefined", "number" }
      RequiredFunction == { "function", "undefined", "string" }
      OptionalString == { "undefined", "string", "number" }
      OptionalFunction == { "undefined", "function", "string" }
      AnnotationValues ==
        { [ kind |-> k, title |-> "absent", readOnlyHint |-> "absent", custom |-> "absent" ] :
            k \in { "undefined", "null", "string", "array" } }
        \cup [ kind : { "object" },
               title : { "absent", "string", "number", "undefined" },
               readOnlyHint : { "absent", "boolean", "string" },
               custom : { "absent", "number" } ]
      ToolDefinitions ==
        [ name : RequiredString, description : RequiredString, execute : RequiredFunction,
          parameters : { "undefined", "object", "array", "null", "string" },
          annotations : AnnotationValues,
          canAccess : OptionalFunction,
          timeoutMs : { "undefined", "number", "string" } ]
      ResourceDefinitions ==
        [ uri : RequiredString, name : RequiredString, load : RequiredFunction,
          mimeType : OptionalString ]
      ArgumentValues ==
        { [ kind |-> k, name |-> "undefined", description |-> "undefined",
            required |-> "undefined" ] : k \in { "null", "string" } }
        \cup [ kind : { "object" }, name : RequiredString,
               description : { "undefined", "string", "number" },
               required : { "undefined", "boolean", "string" } ]
      ArgumentsValues ==
        { [ kind |-> k, items |-> << >> ] : k \in { "undefined", "null", "string", "object" } }
        \cup { [ kind |-> "array", items |-> items ] :
                 items \in UNION { [ 1..n -> ArgumentValues ] : n \in 0..MaxArgs } }
      PromptDefinitions ==
        [ name : RequiredString, load : RequiredFunction, description : OptionalString,
          arguments : ArgumentsValues ]
      ServerOptionsValues ==
        [ name : RequiredString, version : RequiredString, description : OptionalString,
          instructions : OptionalString, authenticate : OptionalFunction ]
      VersionParts ==
        { <<"0">>, <<"2">>, <<"3">>, <<"4">>, <<"1", "2">>, << >>, <<"x">>, <<"-", "1">> }
      Dot == <<".">>
      Versions ==
        VersionParts
        \cup { x \o Dot \o y : x \in VersionParts, y \in VersionParts }
        \cup { x \o Dot \o y \o Dot \o z : x \in VersionParts, y \in VersionParts,
                                             z \in VersionParts }
        \cup { x \o Dot \o y \o Dot \o z \o Dot \o <<"0">> :
                 x \in { <<"3">>, <<"0">> }, y \in { <<"3">>, <<"0">> }, z \in { <<"3">>, <<"0">> } }
      Calls(fn, args) == { [ fn |-> fn, arg |-> x, done |-> FALSE ] : x \in args }
  IN Calls("validateToolDefinition", ToolDefinitions)
     \cup Calls("validateResourceDefinition", ResourceDefinitions)
     \cup Calls("validatePromptDefinition", PromptDefinitions)
     \cup Calls("validateServerOptions", ServerOptionsValues)
     \cup Calls("isVersionSupported", Versions)

InitCompat ==
  /\ compat \in CompatCalls
  /\ emitter = NoEmitter
  /\ server = NoServer
  /\ InitTransport([ present : { {} }, pathPrefix : { DefaultPathPrefix }, cors : { UndefinedCors },
                     maxBodySize : { MaxBody }, timeout : { Timeout } ])

Returns(fn, result) ==
  /\ compat.fn = fn
  /\ ~compat.done
  /\ compat' = [ fn |-> fn, arg |-> compat.arg, done |-> TRUE, result |-> result ]
  /\ UNCHANGED << emitter, server >>
  /\ UNCHANGED transportVars

ValidateTool == Returns("validateToolDefinition", validateToolDefinition(compat.arg))
ValidateResource == Returns("validateResourceDefinition", validateResourceDefinition(compat.arg))
ValidatePrompt == Returns("validatePromptDefinition", validatePromptDefinition(compat.arg))
ValidateServer == Returns("validateServerOptions", validateServerOptions(compat.arg))
VersionSupported == Returns("isVersionSupported", isVersionSupported(compat.arg))

NextCompat ==
  \/ ValidateTool
  \/ ValidateResource
  \/ ValidatePrompt
  \/ ValidateServer
  \/ VersionSupported

SpecCompat == InitCompat /\ [][NextCompat]_vars

\* the validation specification: one request drawn from all of Requests
NextValidation ==
  \/ HandleRequest(1, Requests)
  \/ BodyRead(1)
  \/ Compose(1)
  \/ \E event \in EventNames : AddEventListener(event, 1)

SpecValidation == InitValidation /\ [][NextValidation]_vars


\* =================================================================
\* Properties
\* =================================================================

\* vocabulary of the properties, stated without the code's helpers
UnderPrefix(path) == \E k \in 0..Len(path) : SubSeq(path, 1, k) = DefaultPathPrefix
IsJsonType(ct) == ct \in { JsonMime, JsonMime \o <<"; charset=utf-8">> }
DeclaresLength(cl) == \E n \in 0..(10 * MaxBody + 1) : Decimal(n) = cl
DeclaredLength(cl) == CHOOSE n \in 0..(10 * MaxBody + 1) : Decimal(n) = cl
WellFormedBody(b) == b # "not json"
Listed(origin) == \E i \in 1..Len(options.cors.origins) : options.cors.origins[i] = origin
Started(r) == pc[r] # "idle"
Answered(r) == pc[r] = "done"
\* an exchange (promise and deadline timer) was created for the request
HasExchange(r) == timer[r] # "none"

\* C1: for a validated POST at most one response is ever produced, and once
\* it is produced it is the one decided by the first completion event (a
\* sink value gives 200 with that value serialized, a raised error or the
\* deadline gives 500 with that error's message); the settled promise
\* always holds the first completion, whatever is invoked later.
C1_OneShot ==
  \A r \in Slots :
    /\ respCount[r] <= 1
    /\ (HasExchange(r) /\ promise[r].state # "pending") =>
         /\ events[r] >= 1
         /\ (first[r].kind = "sink") =>
              promise[r].state = "fulfilled" /\ promise[r].value = first[r].value
         /\ (first[r].kind # "sink") =>
              promise[r].state = "rejected" /\ promise[r].reason = first[r].reason
    /\ (HasExchange(r) /\ Answered(r)) =>
         /\ respCount[r] = 1
         /\ (first[r].kind = "sink") =>
              /\ resp[r].status = 200
              /\ resp[r].json = JSONStringify(first[r].value)
         /\ (first[r].kind # "sink") =>
              /\ resp[r].status = 500
              /\ resp[r].json.isError
              /\ resp[r].json.data = first[r].reason

\* C1 witness: an answered exchange with two handlers, completed three
\* times or more, the first time through the sink
C1_Witness ==
  \E r \in Slots :
    /\ Answered(r) /\ HasExchange(r)
    /\ Len(delivered[r]) >= 2
    /\ events[r] >= 3 /\ sinkCalls[r] >= 1
    /\ first[r].kind = "sink"
    /\ resp[r].status = 200

C3_Bounded ==
  \A r \in Slots :
    HasExchange(r) =>
      /\ deadline[r] = created[r] + options.timeout
      /\ (~Answered(r)) => now <= created[r] + options.timeout
      /\ Answered(r) => respTime[r] <= created[r] + options.timeout
      /\ (Answered(r) /\ first[r].kind = "timeout") =>
           respTime[r] = created[r] + options.timeout

\* C3 witness: an exchange created after the clock started, delivered to a
\* handler, answered at its deadline, the handler invoking the sink late
C3_Witness ==
  \E r \in Slots :
    /\ Answered(r) /\ HasExchange(r)
    /\ created[r] > 0
    /\ Len(delivered[r]) >= 1
    /\ first[r].kind = "timeout"
    /\ events[r] >= 2
    /\ respTime[r] = created[r] + Timeout


\* C4: a POST under the prefix with a JSON content type whose declared
\* Content-Length exceeds maxBodySize is answered 413 without the body
\* being read and without any handler being called; a declared length
\* equal to maxBodySize is not answered 413 and the body is read.
C4_SizeRejection ==
  \A r \in Slots :
    ( /\ Started(r)
      /\ req[r].method = "POST"
      /\ UnderPrefix(req[r].path)
      /\ IsJsonType(req[r].contentType)
      /\ DeclaresLength(req[r].contentLength) ) =>
        /\ (DeclaredLength(req[r].contentLength) > options.maxBodySize) =>
             /\ Answered(r)
             /\ resp[r].status = 413
             /\ ~bodyRead[r]
             /\ delivered[r] = <<>>
             /\ events[r] = 0
        /\ (DeclaredLength(req[r].contentLength) = options.maxBodySize) =>
             /\ resp[r].status # 413
             /\ bodyRead[r]

\* C4 witness: with a handler registered, a POST declaring maxBodySize + 1
\* bytes has been answered 413
C4_Witness ==
  \E r \in Slots :
    /\ Answered(r)
    /\ messageHandlers # <<>>
    /\ req[r].contentLength = Decimal(MaxBody + 1)
    /\ resp[r].status = 413

\* C5: a request answered 404, 405, 400 or 413 was delivered to no
\* handler and has no exchange or deadline timer; a request has an exchange
\* only if it passed every validation check.
C5_RejectionsReachNoHandler ==
  \A r \in Slots :
    /\ (Answered(r) /\ resp[r].status \in { 404, 405, 400, 413 }) =>
         /\ delivered[r] = <<>>
         /\ events[r] = 0
         /\ ~HasExchange(r)
         /\ promise[r] = PendingPromise
    /\ (HasExchange(r) \/ delivered[r] # <<>>) =>
         /\ req[r].method = "POST"
         /\ UnderPrefix(req[r].path)
         /\ IsJsonType(req[r].contentType)
         /\ ~( DeclaresLength(req[r].contentLength)
               /\ DeclaredLength(req[r].contentLength) > options.maxBodySize )
         /\ bodyRead[r]
         /\ WellFormedBody(req[r].body)

\* C5 witness: with a handler registered, a POST that passed every check
\* before the body read was answered 400 for its malformed body
C5_Witness ==
  \E r \in Slots :
    /\ Answered(r)
    /\ messageHandlers # <<>>
    /\ bodyRead[r]
    /\ resp[r].status = 400

\* the validation checks of a non-preflight request, by name
Fails(check, q) ==
  CASE check = "method" -> q.method # "POST"
    [] check = "path" -> ~UnderPrefix(q.path)
    [] check = "type" -> ~IsJsonType(q.contentType)
    [] check = "length" -> /\ Truthy(q.contentLength)
                           /\ GreaterThan(parseInt(q.contentLength), options.maxBodySize)
    [] check = "body" -> ~WellFormedBody(q.body)

StatusOf(check) ==
  CASE check = "method" -> 405
    [] check = "path" -> 404
    [] check = "type" -> 400
    [] check = "length" -> 413
    [] check = "body" -> 400

\* the status of the earliest failing check in the given order, 0 if none
RECURSIVE EarliestFailure(_, _, _)
EarliestFailure(order, q, i) ==
  IF i > Len(order) THEN 0
  ELSE IF Fails(order[i], q) THEN StatusOf(order[i])
  ELSE EarliestFailure(order, q, i + 1)

\* a request failing some check in the order is answered with the earliest
\* failing check's status; the body is read only if no earlier check fails
AnsweredInOrder(order) ==
  \A r \in Slots :
    (Started(r) /\ req[r].method # "OPTIONS") =>
      /\ (EarliestFailure(order, req[r], 1) # 0 /\ pc[r] # "reading") =>
           Answered(r) /\ resp[r].status = EarliestFailure(order, req[r], 1)
      /\ bodyRead[r] => \A i \in 1..4 : ~Fails(order[i], req[r])

\* C6 (as stated): the checks are applied in the order method, path
\* prefix, Content-Type, declared length, body.
C6_MethodFirst == AnsweredInOrder(<<"method", "path", "type", "length", "body">>)

\* C6 (amended): the checks are applied in the order path prefix, method,
\* Content-Type, declared length, body.
C6_PathFirst == AnsweredInOrder(<<"path", "method", "type", "length", "body">>)

\* C6 witness: a GET outside the prefix, failing both the path and the
\* method check, has been answered
C6_Witness ==
  \E r \in Slots :
    /\ Answered(r)
    /\ req[r].method = "GET"
    /\ ~UnderPrefix(req[r].path)
    /\ ~IsJsonType(req[r].contentType)
    /\ resp[r].status = 404

\* C7 (as stated): every request whose path is not under the prefix is
\* answered 404, OPTIONS included.
C7_NotFoundAnyMethod ==
  \A r \in Slots :
    (Started(r) /\ ~UnderPrefix(req[r].path)) =>
      Answered(r) /\ resp[r].status = 404

\* C7 (amended): every request whose path is not under the prefix and
\* whose method is not OPTIONS is answered 404; an OPTIONS request is
\* answered as a preflight (204 or 403) whatever its path.
C7_NotFoundExceptPreflight ==
  \A r \in Slots :
    /\ (Started(r) /\ ~UnderPrefix(req[r].path) /\ req[r].method # "OPTIONS") =>
         Answered(r) /\ resp[r].status = 404 /\ resp[r].text = "Not Found"
    /\ (Started(r) /\ req[r].method = "OPTIONS") =>
         Answered(r) /\ resp[r].status = (IF options.cors.enabled THEN 204 ELSE 403)

\* C7 witness: a POST whose path contains the prefix but does not start
\* with it has been answered 404
C7_Witness ==
  \E r \in Slots :
    /\ Answered(r)
    /\ req[r].method = "POST"
    /\ req[r].path = <<"/", "a", "/", "m", "c", "p">>
    /\ IsJsonType(req[r].contentType)
    /\ resp[r].status = 404

\* C8: a request under the prefix whose method is neither POST nor OPTIONS
\* is answered 405 with Allow: POST, OPTIONS, whatever its headers and
\* body; the body is not read and no handler is called.
C8_MethodNotAllowed ==
  \A r \in Slots :
    (Started(r) /\ UnderPrefix(req[r].path) /\ req[r].method \notin { "POST", "OPTIONS" }) =>
      /\ Answered(r)
      /\ resp[r].status = 405
      /\ Header(resp[r], "Allow") = { <<"POST, OPTIONS">> }
      /\ ~bodyRead[r]
      /\ delivered[r] = <<>>
      /\ ~HasExchange(r)

\* C8 witness: with a handler registered, a DELETE under the prefix with a
\* JSON content type and a well-formed body has been answered 405
C8_Witness ==
  \E r \in Slots :
    /\ Answered(r)
    /\ messageHandlers # <<>>
    /\ req[r].method = "DELETE"
    /\ req[r].path = <<"/", "m", "c", "p", "/", "x">>
    /\ IsJsonType(req[r].contentType)
    /\ WellFormedBody(req[r].body)
    /\ resp[r].status = 405

\* C9: whenever CORS is enabled, every response carries the access-control
\* headers (the allowed methods and the allowed headers at least).
C9_CorsOnEveryResponse ==
  \A r \in Slots :
    (Answered(r) /\ options.cors.enabled) =>
      /\ HasHeader(resp[r], "Access-Control-Allow-Methods")
      /\ HasHeader(resp[r], "Access-Control-Allow-Headers")

\* C10: with CORS enabled, on every response that carries access-control
\* headers: Access-Control-Allow-Origin is "*" if the origin list contains
\* "*"; otherwise it is the request's Origin if that Origin is in the list,
\* and it is absent if the Origin is absent or not in the list.  A
\* preflight is answered 204 in each case.
C10_AllowOrigin ==
  \A r \in Slots :
    (Answered(r) /\ options.cors.enabled) =>
      /\ (req[r].method = "OPTIONS") => resp[r].status = 204
      /\ (resp[r].status \in { 204, 200, 500 }) =>
           Header(resp[r], "Access-Control-Allow-Origin") =
             ( IF Listed(Wildcard) THEN { Wildcard }
               ELSE IF req[r].origin # Absent /\ Listed(req[r].origin) THEN { req[r].origin }
               ELSE {} )

\* C10 witness: a preflight from an origin that the explicit list does not
\* name has been answered 204 without Access-Control-Allow-Origin
C10_Witness ==
  \E r \in Slots :
    /\ Answered(r)
    /\ options.cors.enabled
    /\ options.cors.origins = <<OriginA>>
    /\ req[r].method = "OPTIONS"
    /\ req[r].origin = OriginB
    /\ resp[r].status = 204
    /\ ~HasHeader(resp[r], "Access-Control-Allow-Origin")

\* C11: with CORS disabled every OPTIONS request is answered 403 and no
\* response to another request carries an Access-Control-* header (its
\* headers are Content-Type and Allow at most), whatever the origins and
\* credentials settings.
C11_CorsDisabled ==
  \A r \in Slots :
    (Answered(r) /\ ~options.cors.enabled) =>
      /\ (req[r].method = "OPTIONS") =>
           resp[r].status = 403 /\ resp[r].text = "CORS disabled"
      /\ \A h \in resp[r].headers : h[1] \in { "Content-Type", "Allow" }

\* C11 witness: CORS disabled with a wildcard list and credentials set, a
\* POST from a listed origin answered 200
C11_Witness ==
  \E r \in Slots :
    /\ Answered(r)
    /\ ~options.cors.enabled
    /\ options.cors.credentials
    /\ options.cors.origins = <<OriginA, Wildcard>>
    /\ req[r].method = "POST"
    /\ req[r].origin = OriginA
    /\ resp[r].status = 200

\* C12: when a handler raises during the broadcast before any completion,
\* the exchange is rejected with that error at once and its timer is
\* cleared; the response is produced at the tick of the broadcast, is 500
\* with code -32603 and the error's message as detail, no field holding the
\* error's stack; nothing invoked later changes the promise or the response.
C12_SyncThrow ==
  \A r \in Slots :
    (HasExchange(r) /\ first[r].kind = "throw") =>
      /\ timer[r] = "cleared"
      /\ promise[r].state = "rejected"
      /\ promise[r].reason = first[r].reason
      /\ Answered(r) =>
           /\ respTime[r] = created[r]
           /\ resp[r].status = 500
           /\ resp[r].json.isError
           /\ resp[r].json.code = -32603
           /\ resp[r].json.data = first[r].reason
           /\ StackOf(first[r].reason) \notin
                { resp[r].json.data, resp[r].json.message, resp[r].text }

\* C12 witness: a handler raised first, another completion and a late
\* sink invocation followed, and the request is answered
C12_Witness ==
  \E r \in Slots :
    /\ Answered(r) /\ HasExchange(r)
    /\ first[r].kind = "throw"
    /\ events[r] >= 3
    /\ sinkCalls[r] >= 1
    /\ resp[r].status = 500

\* the deadline timer of the exchange has fired
TimedOut(r) == timer[r] = "fired"

\* C13: once the deadline timer has fired, the exchange holds the timeout
\* error and no later step (a late sink invocation in particular) changes
\* its promise, re-arms its timer, replaces its response or produces a
\* second one.
C13_LateDiscarded ==
  [][ \A r \in Slots :
        TimedOut(r) =>
          /\ promise[r].state = "rejected"
          /\ promise[r].reason = TimeoutMessage
          /\ promise'[r] = promise[r]
          /\ timer'[r] = timer[r]
          /\ respCount'[r] <= 1
          /\ Answered(r) =>
               /\ resp[r].status = 500
               /\ resp[r].json.data = TimeoutMessage
               /\ resp'[r] = resp[r]
               /\ respCount'[r] = respCount[r]
               /\ pc'[r] = pc[r] ]_vars

\* C13 witness: a timed-out and answered exchange whose handler invoked
\* the sink twice afterwards
C13_Witness ==
  \E r \in Slots :
    /\ TimedOut(r) /\ Answered(r)
    /\ first[r].kind = "timeout"
    /\ sinkCalls[r] >= 2
    /\ events[r] >= 3
    /\ resp[r].json.data = TimeoutMessage

\* the state of a request's exchange, read off its promise and timer
ExchangeState(r) ==
  IF ~HasExchange(r) THEN "None"
  ELSE IF promise[r].state = "pending" THEN "AwaitingResult"
  ELSE IF timer[r] = "fired" THEN "TimedOut"
  ELSE "Resolved"

\* the timer is armed exactly while the exchange awaits its result; a
\* Resolved exchange has a cleared timer and does not hold the timeout error
ExchangeConsistent(r) ==
  /\ HasExchange(r) => (timer[r] = "armed" <=> promise[r].state = "pending")
  /\ (ExchangeState(r) = "Resolved") =>
       /\ timer[r] = "cleared"
       /\ promise[r].reason # TimeoutMessage
  /\ (ExchangeState(r) = "TimedOut") =>
       /\ promise[r].state = "rejected"
       /\ promise[r].reason = TimeoutMessage

\* C14: an exchange leaves AwaitingResult only for Resolved or TimedOut,
\* which it never leaves again (its promise and timer stay as they are); in
\* every state the timer is armed exactly while the result is awaited, so a
\* Resolved exchange has no armed timer and never holds the timeout error.
C14_StateMachine ==
  [][ \A r \in Slots :
        /\ ExchangeConsistent(r)
        /\ ExchangeConsistent(r)'
        /\ (ExchangeState(r) = "AwaitingResult") =>
             ExchangeState(r)' \in { "AwaitingResult", "Resolved", "TimedOut" }
        /\ (ExchangeState(r) \in { "Resolved", "TimedOut" }) =>
             /\ ExchangeState(r)' = ExchangeState(r)
             /\ promise'[r] = promise[r]
             /\ timer'[r] = timer[r] ]_vars

\* C14 witness: an exchange resolved through the sink, answered, with the
\* clock past its deadline and a further sink invocation made
C14_Witness ==
  \E r \in Slots :
    /\ ExchangeState(r) = "Resolved"
    /\ Answered(r)
    /\ first[r].kind = "sink"
    /\ now > deadline[r]
    /\ events[r] >= 2
    /\ timer[r] = "cleared"

\* what a request's processing owns: its position, exchange and response
Own(r) == << pc[r], req[r], promise[r], timer[r], deadline[r], delivered[r],
             first[r], events[r], sinkCalls[r], resp[r], respCount[r] >>

\* the outcome of a request follows from its own first completion event
OwnOutcome(r) ==
  (HasExchange(r) /\ Answered(r)) =>
    /\ respTime[r] <= created[r] + options.timeout
    /\ CASE first[r].kind = "sink" ->
              /\ resp[r].status = 200
              /\ resp[r].json.value.data =
                   IF first[r].value.error THEN "{}" ELSE first[r].value.data
         [] first[r].kind = "throw" ->
              resp[r].status = 500 /\ resp[r].json.data = first[r].reason
                /\ respTime[r] = created[r]
         [] first[r].kind = "timeout" ->
              resp[r].status = 500 /\ resp[r].json.data = TimeoutMessage
                /\ respTime[r] = deadline[r]
         [] OTHER -> FALSE

\* C15: with two requests in flight, a step that changes anything owned by
\* one request (a completion, a deadline, a response) changes nothing owned
\* by the other, no unanswered exchange outlives its own deadline, and each
\* answer is the outcome of that request's own first completion event.
C15_Isolation ==
  [][ \A r \in Slots :
        /\ (Own(r)' # Own(r)) => \A s \in Slots \ { r } : Own(s)' = Own(s)
        /\ OwnOutcome(r)'
        /\ (HasExchange(r) /\ ~Answered(r))' => (now <= deadline[r])' ]_vars

\* C15 witness: two exchanges in flight together, the one created first
\* answered by its deadline, the other answered earlier through the sink
C15_Witness ==
  /\ Answered(1) /\ HasExchange(1)
  /\ Answered(2) /\ HasExchange(2)
  /\ created[1] < created[2]
  /\ respTime[2] < respTime[1]
  /\ first[1].kind = "timeout" /\ resp[1].status = 500
  /\ first[2].kind = "sink" /\ resp[2].status = 200

\* C16: when the first completion is a sink invocation with a result
\* value, the response is 200 with Content-Type application/json and its
\* body is the serialization of that value and nothing else.
C16_Success ==
  \A r \in Slots :
    (HasExchange(r) /\ Answered(r) /\ first[r].kind = "sink" /\ ~first[r].value.error) =>
      /\ resp[r].status = 200
      /\ Header(resp[r], "Content-Type") = { JsonMime }
      /\ resp[r].text = None
      /\ ~resp[r].json.isError
      /\ resp[r].json.value.data = first[r].value.data
      /\ resp[r].json.value.env = first[r].value.env

\* C16 witness: one handler completed at once with a value and the
\* request is answered with it
C16_Witness ==
  \E r \in Slots :
    /\ Answered(r) /\ HasExchange(r)
    /\ Len(delivered[r]) = 1
    /\ events[r] = 1 /\ sinkCalls[r] = 0
    /\ first[r].kind = "sink" /\ first[r].value.data = "r1"
    /\ respTime[r] = created[r]
    /\ resp[r].json.value.data = "r1"

\* C17: when the first completion is a sink invocation with an error, the
\* response is 500 with the error envelope of code -32603.
C17_SinkError ==
  \A r \in Slots :
    (HasExchange(r) /\ Answered(r) /\ first[r].kind = "sink" /\ first[r].value.error) =>
      /\ resp[r].status = 500
      /\ resp[r].json.isError
      /\ resp[r].json.code = -32603

\* C18: a step that changes the set of message handlers is an
\* addEventListener (one handler appended), a removeEventListener (one
\* handler taken out) or a close (the set emptied), and changes nothing of
\* any request's processing; so no step of request processing changes it.
C18_RegistryFrame ==
  [][ (messageHandlers' # messageHandlers) =>
        /\ \A r \in Slots : Own(r)' = Own(r)
        /\ now' = now
        /\ \/ \E h \in Handlers :
                /\ ~ArrayIncludes(messageHandlers, h)
                /\ messageHandlers' = Append(messageHandlers, h)
           \/ \E i \in 1..Len(messageHandlers) :
                messageHandlers' = SubSeq(messageHandlers, 1, i - 1)
                                     \o SubSeq(messageHandlers, i + 1, Len(messageHandlers))
           \/ messageHandlers' = <<>> ]_vars

\* C18 witness: a request was validated, broadcast to two handlers, timed
\* out and answered, and both handlers are still registered in their order
C18_Witness ==
  \E r \in Slots :
    /\ Answered(r) /\ HasExchange(r)
    /\ TimedOut(r)
    /\ Len(delivered[r]) = 2
    /\ messageHandlers = delivered[r]

\* a request that ended in a timeout or in a handler error, and was answered
Failed(r) ==
  /\ HasExchange(r) /\ Answered(r)
  /\ first[r].kind \in { "timeout", "throw" }
  /\ resp[r].status = 500

\* C19: the step in which a request ends in a timeout or a handler error
\* leaves the configuration and the handler sets as they were; and once a
\* request has failed, every step of another request is the step of a
\* request handled alone: validated by the usual checks in their order,
\* broadcast to the handlers registered at that moment with a fresh deadline,
\* and answered with the outcome of its own first completion event.
C19_FailuresNotFatal ==
  [][ \A r \in Slots :
        /\ (~Failed(r) /\ Failed(r)') => (options' = options /\ registry' = registry)
        /\ Failed(r) =>
             \A s \in Slots \ { r } :
               /\ (pc[s] = "idle" /\ pc'[s] # "idle") =>
                    LET status == EarliestFailure(<<"path", "method", "type", "length">>, req'[s], 1)
                    IN IF status # 0
                         THEN pc'[s] = "done" /\ resp'[s].status = status /\ ~bodyRead'[s]
                         ELSE pc'[s] = "reading" /\ bodyRead'[s]
               /\ (pc[s] = "reading" /\ pc'[s] = "awaiting") =>
                    /\ delivered'[s] = messageHandlers
                    /\ created'[s] = now
                    /\ deadline'[s] = now + options.timeout
               /\ OwnOutcome(s)'
               /\ (HasExchange(s) /\ ~Answered(s))' => (now <= deadline[s])' ]_vars

\* C19 witness: the first request timed out and was answered 500; a second
\* request arrived afterwards, was broadcast to the handler still registered
\* and was answered 200 with the value its handler passed to the sink
C19_Witness ==
  /\ Failed(1) /\ first[1].kind = "timeout"
  /\ Answered(2) /\ HasExchange(2)
  /\ created[2] >= respTime[1]
  /\ delivered[2] = <<1>>
  /\ first[2].kind = "sink" /\ ~first[2].value.error
  /\ resp[2].status = 200
  /\ resp[2].json.value.data = first[2].value.data

\* C19 second case: the first request ended in a handler error before the
\* second one arrived and was answered
C19_AfterHandlerError ==
  /\ Failed(1) /\ first[1].kind = "throw"
  /\ Answered(2) /\ HasExchange(2)
  /\ created[2] >= respTime[1]

\* C20 (as stated): the message of an exchange is delivered to exactly the
\* handlers that were in the registry when the exchange was created, once
\* each and in registration order, whatever the handlers do while they are
\* called.
C20_SnapshotMembership ==
  \A r \in Slots : HasExchange(r) => delivered[r] = registered[r]

\* C20 (amended): the broadcast walks the live registry. When no handler
\* subscribes or unsubscribes during the broadcast, the message is delivered
\* to every handler registered at creation, once each and in registration
\* order. In every case the handler registered first is called first, every
\* handler in the registry when the broadcast returns has received the
\* message (one subscribed by a handler during the broadcast included), and
\* nothing is delivered after the broadcast has returned.
C20_LiveMembership ==
  [][ \A r \in Slots :
        /\ (pc[r] = "reading" /\ pc'[r] = "awaiting") =>
             /\ ~reentered'[r] =>
                  delivered'[r] = messageHandlers /\ messageHandlers' = messageHandlers
             /\ messageHandlers # <<>> =>
                  delivered'[r] # <<>> /\ delivered'[r][1] = messageHandlers[1]
             /\ \A h \in Handlers :
                  ArrayIncludes(messageHandlers', h) => ArrayIncludes(delivered'[r], h)
        /\ HasExchange(r) => delivered'[r] = delivered[r] ]_vars

\* C20 witness: one handler was registered when the exchange was created; it
\* subscribed a second handler while it was called, and the second handler
\* received the message in the same broadcast
C20_Witness ==
  \E r \in Slots :
    /\ HasExchange(r)
    /\ reentered[r]
    /\ registered[r] = <<1>>
    /\ delivered[r] = <<1, 2>>

\* C20, the plain case: two handlers registered at creation, none changing
\* the registry, each called once in registration order
C20_PlainBroadcast ==
  \E r \in Slots :
    /\ HasExchange(r)
    /\ ~reentered[r]
    /\ Len(registered[r]) = 2
    /\ delivered[r] = registered[r]

\* C21: with CORS enabled, a response that carries access-control headers
\* (the preflight answer, the 200 and the 500) carries
\* Access-Control-Allow-Credentials: true exactly when the credentials flag
\* is true, whatever the request's Origin and whatever the allow-origin
\* value (wildcard, echoed origin or absent); wildcard with credentials is
\* answered like any other configuration.
C21_Credentials ==
  \A r \in Slots :
    (Answered(r) /\ options.cors.enabled /\ resp[r].status \in { 204, 200, 500 }) =>
      /\ HasHeader(resp[r], "Access-Control-Allow-Methods")
      /\ Header(resp[r], "Access-Control-Allow-Credentials") =
           ( IF options.cors.credentials THEN { <<"true">> } ELSE {} )

\* C21 witness: wildcard origin list with credentials: a request with an
\* Origin has been answered with both Access-Control-Allow-Origin: * and
\* Access-Control-Allow-Credentials: true
C21_Witness ==
  \E r \in Slots :
    /\ Answered(r)
    /\ options.cors.enabled /\ options.cors.credentials
    /\ Listed(Wildcard)
    /\ req[r].origin # Absent
    /\ Header(resp[r], "Access-Control-Allow-Origin") = { Wildcard }
    /\ Header(resp[r], "Access-Control-Allow-Credentials") = { <<"true">> }

\* C22: every option the caller leaves out takes its default (pathPrefix
\* "/mcp", maxBodySize 1048576, timeout 30000, cors enabled, origins ["*"],
\* credentials false), and an option the caller gives replaces the default
\* of that option only.
C22_Defaults ==
  LET given(k) == k \in supplied.present
      givenCors(k) == "cors" \in supplied.present /\ k \notin supplied.cors.undefined
  IN /\ options.pathPrefix = (IF given("pathPrefix") THEN supplied.pathPrefix ELSE <<"/", "m", "c", "p">>)
     /\ options.maxBodySize = (IF given("maxBodySize") THEN supplied.maxBodySize ELSE 1048576)
     /\ options.timeout = (IF given("timeout") THEN supplied.timeout ELSE 30000)
     /\ options.cors.undefined = {}
     /\ options.cors.enabled = (IF givenCors("enabled") THEN supplied.cors.enabled ELSE TRUE)
     /\ options.cors.origins = (IF givenCors("origins") THEN supplied.cors.origins ELSE <<Wildcard>>)
     /\ options.cors.credentials =
          (IF givenCors("credentials") THEN supplied.cors.credentials ELSE FALSE)

\* C25: whatever options the constructor was given, handleRequest never
\* raises or rejects, and a request it has finished with has exactly one
\* response.
C25_Totality ==
  \A r \in Slots :
    /\ pc[r] # "raised"
    /\ pc[r] = "done" => respCount[r] = 1

\* ------------------------------------------------------------- C23, C24
Returned(fn) == compat.fn = fn /\ compat.done

\* a required field that is missing or of another type than the expected one
RequiredWrong(kind, expected) == kind # expected

\* an optional field that is present and of none of the accepted kinds
OptionalWrong(kind, accepted) == kind \notin { "undefined", "absent" } /\ kind \notin accepted

ObjectKinds == { "object", "array" }

ArgumentDefect(arg) ==
  \/ arg.kind \notin ObjectKinds
  \/ RequiredWrong(arg.name, "string")
  \/ OptionalWrong(arg.description, { "string" })
  \/ OptionalWrong(arg.required, { "boolean" })

Defect(fn, d) ==
  CASE fn = "validateToolDefinition" ->
         \/ RequiredWrong(d.name, "string")
         \/ RequiredWrong(d.description, "string")
         \/ RequiredWrong(d.execute, "function")
         \/ OptionalWrong(d.parameters, ObjectKinds)
         \/ OptionalWrong(d.annotations.kind, ObjectKinds)
         \/ /\ d.annotations.kind \in ObjectKinds
            /\ \/ OptionalWrong(d.annotations.title, { "string" })
               \/ OptionalWrong(d.annotations.readOnlyHint, { "boolean" })
         \/ OptionalWrong(d.canAccess, { "function" })
         \/ OptionalWrong(d.timeoutMs, { "number" })
    [] fn = "validateResourceDefinition" ->
         \/ RequiredWrong(d.uri, "string")
         \/ RequiredWrong(d.name, "string")
         \/ RequiredWrong(d.load, "function")
         \/ OptionalWrong(d.mimeType, { "string" })
    [] fn = "validatePromptDefinition" ->
         \/ RequiredWrong(d.name, "string")
         \/ RequiredWrong(d.load, "function")
         \/ OptionalWrong(d.description, { "string" })
         \/ OptionalWrong(d.arguments.kind, { "array" })
         \/ /\ d.arguments.kind = "array"
            /\ \E i \in 1..Len(d.arguments.items) : ArgumentDefect(d.arguments.items[i])
    [] fn = "validateServerOptions" ->
         \/ RequiredWrong(d.name, "string")
         \/ RequiredWrong(d.version, "string")
         \/ OptionalWrong(d.description, { "string" })
         \/ OptionalWrong(d.instructions, { "string" })
         \/ OptionalWrong(d.authenticate, { "function" })

Validators ==
  { "validateToolDefinition", "validateResourceDefinition",
    "validatePromptDefinition", "validateServerOptions" }

\* C23: each definition validator returns valid = true exactly when its
\* list of issues is empty, and the list is non-empty whenever a required
\* field is missing or of the wrong type or a present optional field is of
\* the wrong type
C23_Validators ==
  (compat.fn \in Validators /\ compat.done) =>
    /\ compat.result.valid <=> (Len(compat.result.issues) = 0)
    /\ Defect(compat.fn, compat.arg) => Len(compat.result.issues) > 0

\* a tool whose only defect is the missing execute function was rejected
C23_Witness ==
  /\ Returned("validateToolDefinition")
  /\ compat.arg.name = "string"
  /\ compat.arg.description = "string"
  /\ compat.arg.execute = "undefined"
  /\ compat.arg.parameters = "object"
  /\ compat.arg.annotations.kind = "undefined"
  /\ compat.arg.canAccess = "undefined"
  /\ compat.arg.timeoutMs = "undefined"
  /\ ~compat.result.valid
  /\ Len(compat.result.issues) = 1

\* v1.v2.v3 below w1.w2.w3
VersionBelow(v, w) ==
  \/ v[1] < w[1]
  \/ v[1] = w[1] /\ v[2] < w[2]
  \/ v[1] = w[1] /\ v[2] = w[2] /\ v[3] < w[3]

InSupportedRange(version) ==
  LET strings == Split(version, 1, << >>, << >>)
  IN /\ Len(strings) = 3
     /\ \A i \in 1..3 : AllDigits(strings[i])
     /\ LET v == [ i \in 1..3 |-> DigitPrefixValue(strings[i], 1, 0) ]
        IN ~VersionBelow(v, <<3, 0, 0>>) /\ VersionBelow(v, <<4, 0, 0>>)

\* C24: isVersionSupported(v) is true exactly for the three-part numeric
\* versions with 3.0.0 <= v < 4.0.0, and false for every other input
C24_VersionRange ==
  Returned("isVersionSupported") => (compat.result = InSupportedRange(compat.arg))

\* the tested release 3.12.0 was reported as not supported
C24_TestedRejected ==
  /\ Returned("isVersionSupported")
  /\ compat.arg = SUPPORTED_FASTMCP_VERSIONS.tested[1]
  /\ ~compat.result

\* ------------------------------------------------------------------ C26
\* a handler completed the exchange or raised while the broadcast ran
CompletedInBroadcast(r) ==
  \/ first[r].kind = "throw"
  \/ first[r].kind = "sink" /\ sinkCalls[r] = 0

\* C26: when a handler completed the exchange or raised during the
\* broadcast, every handler registered at that time was still called in
\* the same broadcast, in registration order, and the exchange holds the
\* outcome of that first completion with its timer cleared
C26_FanOut ==
  \A r \in Slots :
    (HasExchange(r) /\ ~reentered[r] /\ CompletedInBroadcast(r)) =>
      /\ delivered[r] = registered[r]
      /\ timer[r] = "cleared"
      /\ IF first[r].kind = "sink"
           THEN promise[r].state = "fulfilled" /\ promise[r].value = first[r].value
           ELSE promise[r].state = "rejected" /\ promise[r].reason = first[r].reason

\* C26 witness: the first of two handlers raised, the second was called
\* after it and completed through the sink, and the answer is the error
C26_Witness ==
  \E r \in Slots :
    /\ Answered(r) /\ HasExchange(r) /\ ~reentered[r]
    /\ first[r].kind = "throw"
    /\ Len(registered[r]) = 2
    /\ delivered[r] = registered[r]
    /\ events[r] = 2 /\ sinkCalls[r] = 0
    /\ resp[r].status = 500

\* ------------------------------------------------------------------ C27
\* the handlers of request r completed it by send() of the message given
\* to them
AnsweredBySend(r) ==
  /\ Answered(r) /\ HasExchange(r)
  /\ first[r].kind = "sink"
  /\ first[r].value = ReceivedMessage(r)

\* C27: the env value of a request never appears in the body of its
\* response, and two requests that differ only in env and are completed
\* by send() of the message the handlers were given get identical
\* responses
C27_EnvNonInterference ==
  /\ \A r \in Slots :
       (Answered(r) /\ req[r].env # None) => resp[r].json.value.env # req[r].env
  /\ ( /\ AnsweredBySend(1) /\ AnsweredBySend(2)
       /\ [ req[1] EXCEPT !.env = None ] = [ req[2] EXCEPT !.env = None ] )
     => resp[1] = resp[2]

\* ------------------------------------------------------------------ C28
\* C28: in a Workers runtime, with the compatibility check passing or
\* skipped, constructing WorkersFastMCP completes without raising, with
\* the engine created before any member that refers to it is evaluated,
\* and toWorkerHandler() returns a handler
C28_Construction ==
  ( /\ server.step \in { "exported", "raised" }
    /\ server.input.runtime = "workers"
    /\ server.input.skipCompatibilityCheck \/ server.input.compatible )
  => /\ server.step = "exported"
     /\ server.instance.fastmcp /\ server.instance.transport /\ server.instance.connected
     /\ server.handler

\* the construction raised a TypeError in a Workers runtime with the
\* compatibility check skipped
C28_RaisedInWorkers ==
  /\ server.step = "raised"
  /\ server.input.runtime = "workers"
  /\ server.input.skipCompatibilityCheck
  /\ server.instance.error = "TypeError"
  /\ ~server.instance.fastmcp

\* ------------------------------------------------------------------ C30
\* C30: emit calls every listener registered for the event when emit is
\* called, once each and in registration order, whether added by on or by
\* once and whatever an earlier listener raises; it returns true exactly
\* when a listener was registered; a listener added by once is not called
\* by a later emit
C30_EmitDelivery ==
  emitter.used /\ emitter.last.event # None =>
    /\ emitter.last.called =
         [ i \in 1..Len(emitter.last.before) |-> emitter.last.before[i].id ]
    /\ emitter.last.returned = (Len(emitter.last.before) > 0)
    /\ ~emitter.last.repeated

\* a listener added by on after one added by once was left out by emit
C30_SkippedAfterOnce ==
  /\ emitter.used
  /\ Len(emitter.last.before) = 2
  /\ emitter.last.before[1].once /\ ~emitter.last.before[2].once
  /\ emitter.last.called = << emitter.last.before[1].id >>

\* ------------------------------------------------------------------ C29
\* a step of close() that called a handler or emptied a set
CloseStep ==
  \/ closeCalls' # closeCalls
  \/ \E i \in 1..3 : Len(registry'[i]) < Len(registry[i])

====
